---- MODULE Spec2Model ----
(***************************************************************************)
(* Quiz lifecycle and answer verification of the quiz server:              *)
(*   server/routes.ts      the HTTP handlers (registerRoutes)              *)
(*   server cleanup module cleanupExpiredQuizzes / scheduleCleanupTask     *)
(*   shared/schema.ts      the tables and their constraints                *)
(*   QuizAnswer            the quiz taker's answers, progress and score    *)
(*   QuizCreationNew.tsx, QuizCreation.tsx   the question forms            *)
(* Time is counted in seconds.  resp is the response produced by the most  *)
(* recent step (NoResp when that step was not the end of a request).       *)
(***************************************************************************)
EXTENDS Integers, Sequences, FiniteSets, Bags, TLC

VARIABLES now, quizzes, nextQuizId, questions, nextQuestionId,
          attempts, nextAttemptId, sweep, resp,
          vQuestion, vAnswer,
          users, nextUserId, creation, sched,
          taker, form, userReqs, overlapped, slugReqs, posts, quizPost, replies

vars == <<now, quizzes, nextQuizId, questions, nextQuestionId,
          attempts, nextAttemptId, sweep, resp, vQuestion, vAnswer,
          users, nextUserId, creation, sched, taker, form, userReqs,
          overlapped, slugReqs, posts, quizPost, replies>>

dbVars == <<quizzes, nextQuizId, questions, nextQuestionId, attempts, nextAttemptId>>
verifyVars == <<vQuestion, vAnswer>>
userVars == <<users, nextUserId>>
clientVars == <<taker, form>>
reqVars == <<slugReqs, posts, quizPost, replies>>

----------------------------------------------------------------------------
(* Bounds *)

MaxQuizzes == 2
MaxQuestions == 1
MaxAttempts == 1
MaxLen == 2
MaxCorrect == 2
MaxCandidates == 2
MaxListed == 2
MaxSubmitted == 2
MaxUsers == 3
MaxCycles == 3
MaxOptions == 2
MaxInFlight == 2
MaxLeft == 1
MaxUploads == 2
MaxDuringUpload == 3
MaxSlugReads == 1
QuestionCount == 2
MaxFormQuestions == 2
MaxFormOptions == 4
MaxEditorOptions == 3
MaxFormAdded == 1
MaxAnswers == 3

(* Program constants *)

RetentionDays == 7
SecondsPerDay == 86400
SevenDays == RetentionDays * SecondsPerDay

(* The instants the clock visits: creation instants 0 and 1 and the
   instants around their retention boundaries. *)
Instants == {0, 1, SevenDays - 1, SevenDays, SevenDays + 1, SevenDays + 2}

(* The instants of the sweeper's runs: at SevenDays + 1 a quiz created at 0
   is older than a cutoff of 7 days of 24 hours and a quiz created at 1 is at
   that cutoff. *)
SweepInstants == {0, 1, SevenDays + 1}

----------------------------------------------------------------------------
(* Strings are sequences of characters. *)

Lower(ch) ==
  CASE ch = "A" -> "a"
    [] ch = "B" -> "b"
    [] ch = "E" -> "e"
    [] ch = "M" -> "m"
    [] ch = "Y" -> "y"
    [] ch = "D" -> "d"
    [] ch = "N" -> "n"
    [] OTHER -> ch

toLowerCase(s) == [i \in 1..Len(s) |-> Lower(s[i])]

IsSpace(ch) == ch = " "

RECURSIVE trimStart(_)
trimStart(s) ==
  IF s # <<>> /\ IsSpace(Head(s)) THEN trimStart(Tail(s)) ELSE s

RECURSIVE trimEnd(_)
trimEnd(s) ==
  IF s # <<>> /\ IsSpace(s[Len(s)]) THEN trimEnd(SubSeq(s, 1, Len(s) - 1)) ELSE s

trim(s) == trimEnd(trimStart(s))

----------------------------------------------------------------------------
(* Request inputs *)

AccessCodes == {"c1", "c2"}
DashboardTokens == {"t1", "t2"}
UrlSlugs == {<<"a">>, <<"A">>, <<"b">>}
CreatorNames == {<<>>, <<" ">>, <<"e", "m", "y", "d", "a", "n">>,
                 <<"E", "m", "y", "D", "a", "n">>, <<"a", "m", "y">>}
NaN == -1
QuizIdParams == (1..(MaxQuizzes + 1)) \cup {NaN}

(* createdAt is an ISO-8601 text (toISOString): date part, time part.  Two
   such texts compare as strings, i.e. lexicographically. *)
toISOString(t) == <<t \div SecondsPerDay, t % SecondsPerDay>>
getTime(iso) == iso[1] * SecondsPerDay + iso[2]
textLe(a, b) == a[1] < b[1] \/ (a[1] = b[1] /\ a[2] <= b[2])

textLt(a, b) == a[1] < b[1] \/ (a[1] = b[1] /\ a[2] < b[2])

NoQuiz == [id |-> 0, creatorName |-> <<>>, accessCode |-> "", urlSlug |-> <<>>,
           dashboardToken |-> "", createdAt |-> toISOString(0)]

NoReq == [accessCode |-> "", urlSlug |-> <<>>, dashboardToken |-> "", quizId |-> 0,
          attemptId |-> 0, creatorName |-> <<>>, username |-> ""]

NoSweepResult == [success |-> FALSE, count |-> 0, quizIds |-> {}]

NoResp == [op |-> "none", req |-> NoReq, status |-> 0, quiz |-> NoQuiz,
           expired |-> FALSE, error |-> "", message |-> "", rowId |-> 0,
           isCorrect |-> FALSE, result |-> NoSweepResult, data |-> <<>>,
           count |-> 0]

Response(op, req, status, quiz, expired, error, message) ==
  [op |-> op, req |-> req, status |-> status, quiz |-> quiz, expired |-> expired,
   error |-> error, message |-> message, rowId |-> 0, isCorrect |-> FALSE,
   result |-> NoSweepResult, data |-> <<>>, count |-> 0]

----------------------------------------------------------------------------
(* Expiry policy: now > createdAt + 7 days *)

isQuizExpiredInclusive(quiz, t) == t >= getTime(quiz.createdAt) + SevenDays

isQuizExpired(quiz, t) == t > getTime(quiz.createdAt) + SevenDays

(* Persistence layer: lookups.  A unique column matches at most one row;
   find() over the whole table takes the first row, the one of least id. *)

Found(matches) ==
  IF matches = {} THEN NoQuiz
  ELSE CHOOSE q \in matches : \A o \in matches : q.id <= o.id

getQuizByAccessCode(accessCode) == Found({q \in quizzes : q.accessCode = accessCode})
getQuizByUrlSlug(urlSlug) == Found({q \in quizzes : q.urlSlug = urlSlug})
getQuizByDashboardToken(token) == Found({q \in quizzes : q.dashboardToken = token})
getQuiz(quizId) == Found({q \in quizzes : q.id = quizId})

(* allQuizzesList.find(q => q.urlSlug.toLowerCase() === urlSlug.toLowerCase()) *)
slugMatch(urlSlug) ==
  Found({q \in quizzes : toLowerCase(q.urlSlug) = toLowerCase(urlSlug)})

(* The rows of a table in the order of their ids *)
RECURSIVE ById(_)
ById(rows) ==
  IF rows = {} THEN <<>>
  ELSE LET first == CHOOSE r \in rows : \A o \in rows : r.id <= o.id
       IN <<first>> \o ById(rows \ {first})

(* The unique() constraints of the quizzes table *)
UniqueViolationCodeOnly(row) == \E q \in quizzes : q.accessCode = row.accessCode

UniqueViolation(row) ==
  \E q \in quizzes : \/ q.accessCode = row.accessCode
                     \/ q.urlSlug = row.urlSlug
                     \/ q.dashboardToken = row.dashboardToken

----------------------------------------------------------------------------
(* The tail shared by the four quiz lookups: 500 / 404 / 410 / 200 *)

QuizReadResponseNoExpiry(op, req, quiz, dbFail) ==
  IF dbFail THEN Response(op, req, 500, NoQuiz, FALSE, "", "Failed to fetch quiz")
  ELSE IF quiz = NoQuiz
    THEN Response(op, req, 404, NoQuiz, FALSE, "", "Quiz not found")
  ELSE Response(op, req, 200, quiz, FALSE, "", "")

QuizReadResponse(op, req, quiz, dbFail) ==
  IF dbFail THEN Response(op, req, 500, NoQuiz, FALSE, "", "Failed to fetch quiz")
  ELSE IF quiz = NoQuiz
    THEN Response(op, req, 404, NoQuiz, FALSE, "", "Quiz not found")
  ELSE IF isQuizExpired(quiz, now)
    THEN Response(op, req, 410, NoQuiz, TRUE, "", "Quiz expired")
  ELSE Response(op, req, 200, quiz, FALSE, "", "")

(* GET /api/quizzes/code/:accessCode *)
GetQuizByCode ==
  \E accessCode \in AccessCodes, dbFail \in BOOLEAN :
    /\ resp' = QuizReadResponse("code", [NoReq EXCEPT !.accessCode = accessCode],
                                getQuizByAccessCode(accessCode), dbFail)
    /\ UNCHANGED <<now, dbVars, sweep, verifyVars, userVars, creation, sched, clientVars, userReqs, overlapped, reqVars>>

(* GET /api/quizzes/slug/:urlSlug.  The handler has two awaits: the exact
   lookup of line 188 and, when that finds nothing, the select of the whole
   table of line 193; other requests are served between the two.  slugReqs
   holds the requests whose exact lookup found nothing and whose select has
   not been made. *)
GetQuizBySlug ==
  \E urlSlug \in UrlSlugs, dbFail \in BOOLEAN :
    LET req == [NoReq EXCEPT !.urlSlug = urlSlug]
        quiz == getQuizByUrlSlug(urlSlug)
        free == {rid \in 1..MaxSlugReads : \A q \in slugReqs : q.rid # rid}
    IN /\ IF dbFail \/ quiz # NoQuiz
            THEN /\ resp' = QuizReadResponse("slug", req, quiz, dbFail)
                 /\ UNCHANGED slugReqs
            ELSE /\ free # {}
                 /\ resp' = NoResp
                 /\ slugReqs' = slugReqs \cup
                      {[rid |-> CHOOSE rid \in free : \A o \in free : rid <= o,
                        urlSlug |-> urlSlug]}
       /\ UNCHANGED <<now, dbVars, sweep, verifyVars, userVars, creation, sched, clientVars, userReqs, overlapped, posts, quizPost, replies>>

(* lines 193-204, 207-218: the case-insensitive fallback over the rows the
   select returns, then the expiry check *)
SlugFallback ==
  \E q \in slugReqs, dbFail \in BOOLEAN :
    /\ resp' = QuizReadResponse("slug", [NoReq EXCEPT !.urlSlug = q.urlSlug],
                                slugMatch(q.urlSlug), dbFail)
    /\ slugReqs' = slugReqs \ {q}
    /\ UNCHANGED <<now, dbVars, sweep, verifyVars, userVars, creation, sched, clientVars, userReqs, overlapped, posts, quizPost, replies>>

(* GET /api/quizzes/dashboard/:token *)
GetQuizByDashboard ==
  \E token \in DashboardTokens, dbFail \in BOOLEAN :
    /\ resp' = QuizReadResponse("dashboard", [NoReq EXCEPT !.dashboardToken = token],
                                getQuizByDashboardToken(token), dbFail)
    /\ UNCHANGED <<now, dbVars, sweep, verifyVars, userVars, creation, sched, clientVars, userReqs, overlapped, reqVars>>

(* GET /api/quizzes/:quizId *)
GetQuizById ==
  \E quizId \in QuizIdParams, dbFail \in BOOLEAN :
    LET req == [NoReq EXCEPT !.quizId = quizId]
    IN /\ resp' = IF quizId = NaN
                    THEN Response("id", req, 400, NoQuiz, FALSE, "", "Invalid quiz ID")
                    ELSE QuizReadResponse("id", req, getQuiz(quizId), dbFail)
       /\ UNCHANGED <<now, dbVars, sweep, verifyVars, userVars, creation, sched, clientVars, userReqs, overlapped, reqVars>>

----------------------------------------------------------------------------
(* POST /api/users: the user of that username if there is one, else a new
   user. *)

Usernames == {"u1", "u2", "u3"}

createUser(userData) == [id |-> nextUserId, username |-> userData.username]

(* A select that finds no user, whatever is stored *)
selectUserNone(username) == <<>>

(* line 82: select().from(users).where(eq(users.username, ...)).limit(1) *)
selectUser(username) == ById({u \in users : u.username = username})

(* The handler has two awaits: the select of line 82, then
   storage.createUser of line 90.  Each is a step; userReqs holds the
   requests that found no user and have not inserted yet, and a request is
   served whatever the others are doing.  overlapped records the history of
   the run: it becomes TRUE when a request arrives while another is between
   its two awaits, and stays so.  shared/schema.ts
   declares username notNull() only; the CREATE TABLE of server/db.ts, used
   outside production, declares it UNIQUE, and then the insert of a second
   row is refused. *)
UserSelect ==
  /\ \E valid \in BOOLEAN, dbFail \in BOOLEAN, username \in Usernames,
        rid \in 1..MaxInFlight :
       LET req == [NoReq EXCEPT !.username = username]
           existingUser == selectUser(username)
       IN /\ \A q \in userReqs : q.rid # rid
          /\ IF ~valid
               THEN /\ resp' = Response("createUser", req, 400, NoQuiz, FALSE, "",
                                        "Invalid user data")
                    /\ UNCHANGED userReqs
             ELSE IF dbFail
               THEN /\ resp' = Response("createUser", req, 500, NoQuiz, FALSE, "",
                                        "Failed to process user request")
                    /\ UNCHANGED userReqs
             ELSE IF Len(existingUser) > 0
               THEN /\ resp' = [Response("createUser", req, 200, NoQuiz, FALSE, "", "")
                                  EXCEPT !.rowId = existingUser[1].id]
                    /\ UNCHANGED userReqs
               ELSE /\ resp' = NoResp
                    /\ userReqs' = userReqs \cup {[rid |-> rid, username |-> username]}
  /\ overlapped' = (overlapped \/ userReqs # {})
  /\ UNCHANGED <<now, dbVars, sweep, verifyVars, userVars, creation, sched, clientVars, reqVars>>

UserInsert ==
  /\ nextUserId <= MaxUsers
  /\ \E q \in userReqs, dbFail \in BOOLEAN, uniqueUsername \in BOOLEAN :
       LET req == [NoReq EXCEPT !.username = q.username]
           userData == [username |-> q.username]
           refused == uniqueUsername /\ \E u \in users : u.username = q.username
       IN /\ userReqs' = userReqs \ {q}
          /\ IF dbFail \/ refused
               THEN /\ resp' = Response("createUser", req, 500, NoQuiz, FALSE,
                                        IF refused THEN "UNIQUE constraint failed" ELSE "",
                                        "Failed to process user request")
                    /\ UNCHANGED <<users, nextUserId>>
               ELSE /\ resp' = [Response("createUser", req, 201, NoQuiz, FALSE, "", "")
                                  EXCEPT !.rowId = createUser(userData).id]
                    /\ users' = users \cup {createUser(userData)}
                    /\ nextUserId' = nextUserId + 1
  /\ UNCHANGED <<now, dbVars, sweep, verifyVars, creation, sched, clientVars, overlapped, reqVars>>

----------------------------------------------------------------------------
(* createQuizMutation (QuizCreation.tsx): the state of one run of the
   mutation.  pc is "idle" before it starts, "quiz" while the answer to the
   post of the quiz is awaited (line 165), "questions" while Promise.all is
   awaited (line 193), "done" when it resolved and "failed" when the
   mutation threw.  total is the number of questions of the form, pending
   the number of posts of this run whose answer has not arrived, quizId
   the quiz.id of the answer, 0 until it has arrived. *)

NoCreation == [pc |-> "idle", quizId |-> 0, total |-> 0, pending |-> 0, rejected |-> FALSE]

----------------------------------------------------------------------------
(* POST /api/quizzes.  The client generates the three identifiers once
   (createQuizMutation) and the handler inserts the row it was sent. *)

createQuiz(quizData) ==
  [id |-> nextQuizId, creatorName |-> quizData.creatorName,
   accessCode |-> quizData.accessCode, urlSlug |-> quizData.urlSlug,
   dashboardToken |-> quizData.dashboardToken, createdAt |-> toISOString(now)]

PostQuizResponseExactCase(valid, quizData, dbFail) ==
  LET req == [NoReq EXCEPT !.accessCode = quizData.accessCode,
                           !.urlSlug = quizData.urlSlug,
                           !.dashboardToken = quizData.dashboardToken,
                           !.creatorName = quizData.creatorName]
  IN IF ~valid
       THEN Response("createQuiz", req, 400, NoQuiz, FALSE, "", "Invalid quiz data")
     ELSE IF quizData.creatorName = <<>> \/ trim(quizData.creatorName) = <<>>
       THEN Response("createQuiz", req, 400, NoQuiz, FALSE, "EMPTY_CREATOR_NAME",
                     "Creator name cannot be empty")
     ELSE IF quizData.creatorName = <<"e", "m", "y", "d", "a", "n">>
       THEN Response("createQuiz", req, 400, NoQuiz, FALSE, "DEFAULT_CREATOR_NAME_USED",
                     "Cannot use default creator name. Please enter your own name.")
     ELSE IF dbFail \/ UniqueViolation(quizData)
       THEN Response("createQuiz", req, 500, NoQuiz, FALSE, "", "Failed to create quiz")
     ELSE Response("createQuiz", req, 201, createQuiz(quizData), FALSE, "", "")

PostQuizResponse(valid, quizData, dbFail) ==
  LET req == [NoReq EXCEPT !.accessCode = quizData.accessCode,
                           !.urlSlug = quizData.urlSlug,
                           !.dashboardToken = quizData.dashboardToken,
                           !.creatorName = quizData.creatorName]
  IN IF ~valid
       THEN Response("createQuiz", req, 400, NoQuiz, FALSE, "", "Invalid quiz data")
     ELSE IF quizData.creatorName = <<>> \/ trim(quizData.creatorName) = <<>>
       THEN Response("createQuiz", req, 400, NoQuiz, FALSE, "EMPTY_CREATOR_NAME",
                     "Creator name cannot be empty")
     ELSE IF toLowerCase(quizData.creatorName) = <<"e", "m", "y", "d", "a", "n">>
       THEN Response("createQuiz", req, 400, NoQuiz, FALSE, "DEFAULT_CREATOR_NAME_USED",
                     "Cannot use default creator name. Please enter your own name.")
     ELSE IF dbFail \/ UniqueViolation(quizData)
       THEN Response("createQuiz", req, 500, NoQuiz, FALSE, "", "Failed to create quiz")
     ELSE Response("createQuiz", req, 201, createQuiz(quizData), FALSE, "", "")

PostQuizFrom(names, codes, slugs, tokens) ==
  /\ nextQuizId <= MaxQuizzes
  /\ \E valid \in BOOLEAN, dbFail \in BOOLEAN, creatorName \in names,
        accessCode \in codes, urlSlug \in slugs, dashboardToken \in tokens :
       LET quizData == [creatorName |-> creatorName, accessCode |-> accessCode,
                        urlSlug |-> urlSlug, dashboardToken |-> dashboardToken]
           r == PostQuizResponse(valid, quizData, dbFail)
       IN /\ resp' = r
          /\ IF r.status = 201
               THEN /\ quizzes' = quizzes \cup {r.quiz}
                    /\ nextQuizId' = nextQuizId + 1
               ELSE UNCHANGED <<quizzes, nextQuizId>>
          /\ UNCHANGED <<now, questions, nextQuestionId, attempts, nextAttemptId,
                         sweep, verifyVars, userVars, creation, sched, clientVars, userReqs, overlapped, reqVars>>

(* Requests of any identifiers under one accepted name, and requests of any
   name *)
PostQuiz == PostQuizFrom({<<"a", "m", "y">>}, AccessCodes, UrlSlugs, DashboardTokens)

PostQuizNamed ==
  PostQuizFrom(CreatorNames, AccessCodes, {<<"a">>, <<"b">>}, DashboardTokens)

(* A client whose generator never repeats: the identifiers of the n-th quiz *)
GeneratedCodes == <<"c1", "c2", "c3", "c4">>
GeneratedSlugs == <<(<<"a">>), (<<"b">>), (<<"c">>), (<<"d">>)>>
GeneratedTokens == <<"t1", "t2", "t3", "t4">>

(* The same client with a creator name that gives the slug a or A *)
PostQuizCased ==
  PostQuizFrom({<<"a", "m", "y">>}, {GeneratedCodes[nextQuizId]},
               {<<"a">>, <<"A">>}, {GeneratedTokens[nextQuizId]})

PostQuizGenerated ==
  PostQuizFrom({<<"a", "m", "y">>}, {GeneratedCodes[nextQuizId]},
               {GeneratedSlugs[nextQuizId]}, {GeneratedTokens[nextQuizId]})

----------------------------------------------------------------------------
(* POST /api/questions: the row is inserted as sent; the table has no
   reference to quizzes. *)

QuizIds == 1..(MaxQuizzes + 1)

(* The ids of the quizzes created so far, stored or deleted since *)
IssuedQuizIds == 1..(nextQuizId - 1)

(* The options and correct_answers columns are text holding JSON
   (stringifyJsonField): here the text of a list of strings. *)
JSONstringify(list) ==
  [t |-> "arr", s |-> <<>>, items |-> [i \in DOMAIN list |-> [t |-> "str", s |-> list[i]]]]

(* The strings of a column text that denotes a list of strings *)
Elements(text) == {text.items[i].s : i \in DOMAIN text.items}

(* The question posts in flight, by the quiz they name *)
NoPosts == [quizId \in QuizIds |-> 0]

(* A well-formed question: two options, the first of them correct *)
FormQuestion(quizId) ==
  [quizId |-> quizId, options |-> JSONstringify(<<<<"a">>, <<"b">>>>),
   correctAnswers |-> JSONstringify(<<<<"a">>>>)]

(* The bodies insertQuestionSchema accepts: both columns are any strings *)
OptionWords == {<<"a">>, <<"b">>}
AnswerWords == {<<"a">>, <<"c">>}
QuestionBodies(quizIds) ==
  {[quizId |-> quizId, options |-> JSONstringify(options),
    correctAnswers |-> JSONstringify(correctAnswers)] :
     quizId \in quizIds,
     options \in UNION {[1..k -> OptionWords] : k \in 0..MaxOptions},
     correctAnswers \in UNION {[1..k -> AnswerWords] : k \in 0..MaxOptions}}

createQuestion(questionData) ==
  [id |-> nextQuestionId, quizId |-> questionData.quizId,
   options |-> questionData.options, correctAnswers |-> questionData.correctAnswers]

PostQuestionOf(bodies) ==
  /\ nextQuestionId <= MaxQuestions
  /\ \E valid \in BOOLEAN, dbFail \in BOOLEAN, questionData \in bodies :
       LET req == NoReq
           row == createQuestion(questionData)
       IN IF ~valid
            THEN /\ resp' = Response("createQuestion", req, 400, NoQuiz, FALSE, "",
                                     "Invalid question data")
                 /\ UNCHANGED <<questions, nextQuestionId>>
          ELSE IF dbFail
            THEN /\ resp' = Response("createQuestion", req, 500, NoQuiz, FALSE, "",
                                     "Failed to create question")
                 /\ UNCHANGED <<questions, nextQuestionId>>
          ELSE /\ resp' = [Response("createQuestion", req, 201, NoQuiz, FALSE, "", "")
                             EXCEPT !.rowId = row.id]
               /\ questions' = questions \cup {row}
               /\ nextQuestionId' = nextQuestionId + 1
  /\ UNCHANGED <<now, quizzes, nextQuizId, attempts, nextAttemptId, sweep, verifyVars, userVars, creation, sched, clientVars, userReqs, overlapped, reqVars>>

PostQuestionFor(quizIds) == PostQuestionOf({FormQuestion(quizId) : quizId \in quizIds})

PostQuestion == PostQuestionFor(QuizIds)

(* A question of any accepted content posted for a quiz that was created *)
PostQuestionBody == PostQuestionOf(QuestionBodies(IssuedQuizIds))

(* A question posted for a quiz that was created *)
PostQuestionIssued == PostQuestionFor(IssuedQuizIds)

(* POST /api/quiz-attempts: score and totalQuestions are any integers the
   body carries (insertQuizAttemptSchema: integer, not null). *)

createQuizAttempt(attemptData) ==
  [id |-> nextAttemptId, quizId |-> attemptData.quizId,
   score |-> attemptData.score, totalQuestions |-> attemptData.totalQuestions,
   completedAt |-> toISOString(now)]

PostAttemptUpTo(limit, quizIds, scores, totals) ==
  /\ nextAttemptId <= limit
  /\ \E valid \in BOOLEAN, dbFail \in BOOLEAN, quizId \in quizIds,
        score \in scores, totalQuestions \in totals :
       LET req == NoReq
           row == createQuizAttempt([quizId |-> quizId, score |-> score,
                                     totalQuestions |-> totalQuestions])
       IN IF ~valid
            THEN /\ resp' = Response("createAttempt", req, 400, NoQuiz, FALSE, "",
                                     "Invalid attempt data")
                 /\ UNCHANGED <<attempts, nextAttemptId>>
          ELSE IF dbFail
            THEN /\ resp' = Response("createAttempt", req, 500, NoQuiz, FALSE, "",
                                     "Failed to create quiz attempt")
                 /\ UNCHANGED <<attempts, nextAttemptId>>
          ELSE /\ resp' = [Response("createAttempt", req, 201, NoQuiz, FALSE, "", "")
                             EXCEPT !.rowId = row.id]
               /\ attempts' = attempts \cup {row}
               /\ nextAttemptId' = nextAttemptId + 1
  /\ UNCHANGED <<now, quizzes, nextQuizId, questions, nextQuestionId, sweep, verifyVars, userVars, creation, sched, clientVars, userReqs, overlapped, reqVars>>

PostAttemptFrom(scores, totals) == PostAttemptUpTo(MaxAttempts, QuizIds, scores, totals)

Scores == {-1, 3, 999}
Totals == {5}

PostAttempt == PostAttemptFrom(Scores, Totals)

(* The browser client: a score it counted itself, of a five-question quiz
   it loaded *)
PostAttemptFromClient == PostAttemptUpTo(MaxAttempts, IssuedQuizIds, {3}, {5})

PostAttemptListed == PostAttemptUpTo(MaxListed, IssuedQuizIds, {3}, {5})

----------------------------------------------------------------------------
(* What is between the browser and the server.  quizPost: the post of the
   quiz is sent and not handled yet.  replies.quiz: the answer to it, on its
   way to the browser (status 0 when there is none).  replies.questions: for
   each quiz, the answers to its question posts on their way to the
   browser, the 201s and the refusals counted apart. *)
NoReplies ==
  [quiz |-> [status |-> 0, id |-> 0],
   questions |-> [quizId \in QuizIds |-> [ok |-> 0, refused |-> 0]]]

(* createQuizMutation, lines 135-171: the identifiers are generated and the
   quiz is posted; the mutation is pending from here on *)
ClientCreateQuiz ==
  /\ creation.pc = "idle"
  /\ nextQuizId <= MaxQuizzes
  /\ \E total \in 1..MaxSubmitted :
       creation' = [NoCreation EXCEPT !.pc = "quiz", !.total = total]
  /\ quizPost' = TRUE
  /\ resp' = NoResp
  /\ UNCHANGED <<now, dbVars, sweep, verifyVars, userVars, sched, clientVars,
                 userReqs, overlapped, slugReqs, posts, replies>>

(* POST /api/quizzes handles the post of the form: the identifiers are the
   ones the client generated, the creator name the one typed in the form *)
PostQuizFromForm ==
  /\ quizPost
  /\ \E dbFail \in BOOLEAN :
       LET quizData == [creatorName |-> <<"a", "m", "y">>,
                        accessCode |-> GeneratedCodes[nextQuizId],
                        urlSlug |-> GeneratedSlugs[nextQuizId],
                        dashboardToken |-> GeneratedTokens[nextQuizId]]
           r == PostQuizResponse(TRUE, quizData, dbFail)
       IN /\ resp' = r
          /\ IF r.status = 201
               THEN /\ quizzes' = quizzes \cup {r.quiz}
                    /\ nextQuizId' = nextQuizId + 1
               ELSE UNCHANGED <<quizzes, nextQuizId>>
          /\ replies' = [replies EXCEPT !.quiz = [status |-> r.status, id |-> r.quiz.id]]
  /\ quizPost' = FALSE
  /\ UNCHANGED <<now, questions, nextQuestionId, attempts, nextAttemptId, sweep,
                 verifyVars, userVars, creation, sched, clientVars, userReqs,
                 overlapped, slugReqs, posts>>

(* lines 173-191, run when the answer to the post of the quiz arrives: a
   refusal makes the mutation throw; otherwise quiz.id is read from the
   answer and one post per question of the form is sent, all at once *)
ClientQuizReply ==
  /\ replies.quiz.status # 0
  /\ replies' = [replies EXCEPT !.quiz = NoReplies.quiz]
  /\ IF replies.quiz.status = 201
       THEN /\ creation' = [creation EXCEPT !.pc = "questions",
                                            !.quizId = replies.quiz.id,
                                            !.pending = creation.total]
            /\ posts' = [posts EXCEPT ![replies.quiz.id] = creation.total]
       ELSE /\ creation' = [creation EXCEPT !.pc = "failed"]
            /\ UNCHANGED posts
  /\ resp' = NoResp
  /\ UNCHANGED <<now, dbVars, sweep, verifyVars, userVars, sched, clientVars,
                 userReqs, overlapped, slugReqs, quizPost>>

(* lines 184-191: the body of a question post is the form's question with
   quizId and order added.  The form's question (lines 239-249) has the
   fields question, correctAnswer and an options array; it has no text and
   no correctAnswers. *)
ClientQuestionBody(quizId) ==
  [quizId |-> quizId, question |-> <<"q">>, type |-> "multiple-choice",
   options |-> <<<<"a">>, <<"b">>>>, correctAnswer |-> <<"a">>, order |-> 0]

(* insertQuestionSchema (schema.ts 43-45): text, options and correctAnswers
   are required strings, quizId and order required integers *)
insertQuestionSchema(body) ==
  {"quizId", "text", "type", "options", "correctAnswers", "order"} \subseteq DOMAIN body

(* POST /api/questions handles one of the posts of lines 184-191; the posts
   of a run are handled whether or not its mutation has thrown, and whether
   or not the form has been submitted again.  The answer is on its way to
   the browser afterwards. *)
ClientPostQuestion ==
  /\ \E quizId \in QuizIds, dbFail \in BOOLEAN :
       LET body == ClientQuestionBody(quizId)
           valid == insertQuestionSchema(body)
           refused == ~valid \/ dbFail
       IN /\ posts[quizId] > 0
          /\ posts' = [posts EXCEPT ![quizId] = @ - 1]
          /\ IF ~valid
               THEN /\ resp' = Response("createQuestion", NoReq, 400, NoQuiz, FALSE, "",
                                        "Invalid question data")
                    /\ UNCHANGED <<questions, nextQuestionId>>
             ELSE IF dbFail
               THEN /\ resp' = Response("createQuestion", NoReq, 500, NoQuiz, FALSE, "",
                                        "Failed to create question")
                    /\ UNCHANGED <<questions, nextQuestionId>>
             ELSE /\ resp' = [Response("createQuestion", NoReq, 201, NoQuiz, FALSE, "", "")
                                EXCEPT !.rowId = nextQuestionId]
                  /\ questions' = questions \cup
                       {[id |-> nextQuestionId, quizId |-> body.quizId,
                         options |-> body.options,
                         correctAnswers |-> body.correctAnswers]}
                  /\ nextQuestionId' = nextQuestionId + 1
          /\ replies' = IF refused
                          THEN [replies EXCEPT !.questions[quizId].refused = @ + 1]
                          ELSE [replies EXCEPT !.questions[quizId].ok = @ + 1]
  /\ UNCHANGED <<now, quizzes, nextQuizId, attempts, nextAttemptId, sweep,
                 verifyVars, userVars, creation, sched, clientVars, userReqs,
                 overlapped, slugReqs, quizPost>>

(* line 193, run when the answer to a question post arrives, in any order:
   Promise.all rejects with the first refusal and resolves with the last
   answer.  An answer to a post of an earlier run changes nothing. *)
ClientQuestionReply ==
  /\ \E quizId \in QuizIds, refused \in BOOLEAN :
       LET current == creation.pc \in {"questions", "failed"} /\ creation.quizId = quizId
           rejected == creation.rejected \/ refused
       IN /\ IF refused THEN replies.questions[quizId].refused > 0
                        ELSE replies.questions[quizId].ok > 0
          /\ replies' = IF refused
                          THEN [replies EXCEPT !.questions[quizId].refused = @ - 1]
                          ELSE [replies EXCEPT !.questions[quizId].ok = @ - 1]
          /\ creation' = IF ~current THEN creation
                         ELSE [creation EXCEPT
                                 !.pending = @ - 1,
                                 !.rejected = rejected,
                                 !.pc = IF rejected THEN "failed"
                                        ELSE IF creation.pending = 1 THEN "done"
                                        ELSE "questions"]
  /\ resp' = NoResp
  /\ UNCHANGED <<now, dbVars, sweep, verifyVars, userVars, sched, clientVars,
                 userReqs, overlapped, slugReqs, posts, quizPost>>

(* The form is submitted again once the mutation has settled (line 595:
   the button is disabled while it is pending only); posts of the settled
   run can still be in flight *)
ClientAgain ==
  /\ creation.pc \in {"done", "failed"}
  /\ creation' = NoCreation
  /\ resp' = NoResp
  /\ UNCHANGED <<now, dbVars, sweep, verifyVars, userVars, sched, clientVars, userReqs, overlapped, reqVars>>

----------------------------------------------------------------------------
(* The list endpoints *)

(* GET /api/quizzes: every row of the table, whole *)
GetQuizzes ==
  \E dbFail \in BOOLEAN :
    /\ resp' = IF dbFail
                 THEN Response("list", NoReq, 500, NoQuiz, FALSE, "", "Failed to fetch quizzes")
                 ELSE [Response("list", NoReq, 200, NoQuiz, FALSE, "", "")
                         EXCEPT !.data = ById(quizzes)]
    /\ UNCHANGED <<now, dbVars, sweep, verifyVars, userVars, creation, sched, clientVars, userReqs, overlapped, reqVars>>

getQuizAttempts(quizId) == ById({a \in attempts : a.quizId = quizId})

(* line 369: (a, b) => new Date(b.completedAt).getTime() - new Date(a.completedAt).getTime() *)
compareOldestFirst(a, b) == getTime(a.completedAt) - getTime(b.completedAt)

compareCompletedAt(a, b) == getTime(b.completedAt) - getTime(a.completedAt)

(* Array.prototype.sort: stable, an element goes behind every element the
   comparator does not put after it *)
RECURSIVE insert(_, _)
insert(a, sorted) ==
  IF sorted = <<>> THEN <<a>>
  ELSE IF compareCompletedAt(Head(sorted), a) <= 0
    THEN <<Head(sorted)>> \o insert(a, Tail(sorted))
  ELSE <<a>> \o sorted

RECURSIVE sort(_)
sort(list) ==
  IF list = <<>> THEN <<>>
  ELSE insert(list[Len(list)], sort(SubSeq(list, 1, Len(list) - 1)))

(* GET /api/quizzes/:quizId/attempts *)
GetAttempts ==
  \E quizId \in QuizIdParams, dbFail \in BOOLEAN :
    LET req == [NoReq EXCEPT !.quizId = quizId]
        sorted == sort(getQuizAttempts(quizId))
    IN /\ resp' = IF quizId = NaN
                    THEN Response("attempts", req, 400, NoQuiz, FALSE, "", "Invalid quiz ID")
                  ELSE IF dbFail
                    THEN Response("attempts", req, 500, NoQuiz, FALSE, "",
                                  "Failed to fetch quiz attempts")
                  ELSE [Response("attempts", req, 200, NoQuiz, FALSE, "", "")
                          EXCEPT !.data = sorted, !.count = Len(sorted)]
       /\ UNCHANGED <<now, dbVars, sweep, verifyVars, userVars, creation, sched, clientVars, userReqs, overlapped, reqVars>>

(* GET /api/quizzes/:quizId/questions: the rows of that quiz *)
getQuestionsByQuizId(quizId) == ById({q \in questions : q.quizId = quizId})

GetQuestions ==
  \E quizId \in QuizIdParams, dbFail \in BOOLEAN :
    LET req == [NoReq EXCEPT !.quizId = quizId]
    IN /\ resp' = IF quizId = NaN
                    THEN Response("questions", req, 400, NoQuiz, FALSE, "", "Invalid quiz ID")
                  ELSE IF dbFail
                    THEN Response("questions", req, 500, NoQuiz, FALSE, "",
                                  "Failed to fetch questions")
                  ELSE [Response("questions", req, 200, NoQuiz, FALSE, "", "")
                          EXCEPT !.data = getQuestionsByQuizId(quizId)]
       /\ UNCHANGED <<now, dbVars, sweep, verifyVars, userVars, creation, sched, clientVars, userReqs, overlapped, reqVars>>

AttemptIdParams == (1..(MaxListed + 1)) \cup {NaN}

(* GET /api/quiz-attempts/:attemptId: data is the one row *)
GetAttempt ==
  \E attemptId \in AttemptIdParams, dbFail \in BOOLEAN :
    LET req == [NoReq EXCEPT !.attemptId = attemptId]
        attemptResult == ById({a \in attempts : a.id = attemptId})
    IN /\ resp' = IF attemptId = NaN
                    THEN Response("attempt", req, 400, NoQuiz, FALSE, "", "Invalid attempt ID")
                  ELSE IF dbFail
                    THEN Response("attempt", req, 500, NoQuiz, FALSE, "",
                                  "Failed to fetch quiz attempt")
                  ELSE IF attemptResult = <<>>
                    THEN Response("attempt", req, 404, NoQuiz, FALSE, "",
                                  "Quiz attempt not found")
                  ELSE [Response("attempt", req, 200, NoQuiz, FALSE, "", "")
                          EXCEPT !.data = <<attemptResult[1]>>]
       /\ UNCHANGED <<now, dbVars, sweep, verifyVars, userVars, creation, sched, clientVars, userReqs, overlapped, reqVars>>

----------------------------------------------------------------------------
(* scheduleCleanupTask: the state of its two timers.  pc is "off" before the
   call, "waiting" while the initial timeout is pending, "initialCycle" while
   the callback of the initial timeout awaits cleanupExpiredQuizzes, "armed"
   once that callback has created the interval, and "cleared" once the
   pending initial timeout has been cleared.  due is the instant the pending
   timer fires, cycles the number of cycles started, failed the number of
   cycles logged with success:false, cancelled whether the returned handle
   has been cleared. *)

Day == SecondsPerDay
Hour == SecondsPerDay \div 24
HalfHour == Hour \div 2

SchedOff == [pc |-> "off", due |-> 0, cycles |-> 0, failed |-> 0, cancelled |-> FALSE]

(* The states in which a timer callback can be awaiting a cycle: the initial
   callback, or callbacks of the interval *)
Running == {"initialCycle", "armed"}

(* The answer of a cycle that ends in the catch of line 88 *)
IsFailure(r) == r.op = "sweep" /\ ~r.result.success

ContinuationStopsOnFailure(s, r) ==
  IF r.op # "sweep" \/ s.pc \notin Running THEN s
  ELSE IF IsFailure(r) THEN [s EXCEPT !.pc = "stopped", !.failed = @ + 1]
  ELSE IF s.pc = "initialCycle" THEN [s EXCEPT !.pc = "armed", !.due = now + Day]
  ELSE s

(* lines 110-129: what follows  await cleanupExpiredQuizzes()  in the timer
   callback once the cycle has returned result r: the initial callback logs
   the result and creates the interval, an interval callback logs it. *)
Continuation(s, r) ==
  IF r.op # "sweep" \/ s.pc \notin Running THEN s
  ELSE IF s.pc = "initialCycle"
    THEN [s EXCEPT !.pc = "armed", !.due = now + Day,
                   !.failed = @ + (IF IsFailure(r) THEN 1 ELSE 0)]
  ELSE [s EXCEPT !.failed = @ + (IF IsFailure(r) THEN 1 ELSE 0)]

----------------------------------------------------------------------------
(* cleanupExpiredQuizzes: the sweep cycles, one step per awaited call.
   sweep[c] is the state of the c-th call: pc is "idle" when it is not
   running, "select" when the select of the expired quizzes is awaited, then
   "images", "attempts", "questions" and "quizzes" for the call that is
   awaited next.  cutoff is the cutoff of the select while it is awaited;
   nothing after the select reads it.  ids is expiredQuizIds.  Calls whose
   awaits overlap run on the same tables. *)

Cycles == 1..MaxCycles

SweepIdle == [pc |-> "idle", cutoff |-> toISOString(0), ids |-> {}]

NoSweeps == [c \in Cycles |-> SweepIdle]

(* lines 11-16: now.setDate(now.getDate() - 7) is arithmetic on the local
   calendar date at the same local time of day.  It is 7 days of 24 hours
   unless the server's time zone changed its offset within those days; then
   it differs by that change: half an hour (Australia/Lord_Howe), an hour
   (most zones with daylight saving) or two hours (Antarctica/Troll), either
   way. *)
ZoneShifts == {0 - 2 * Hour, 0 - Hour, 0 - HalfHour, 0, HalfHour, Hour, 2 * Hour}

getRetentionCutoffDate(shift) == now - SevenDays + shift

(* lines 43-47, 82-87, 90-94: the value a cycle returns *)
SweepReturn(success, count, quizIds) ==
  [NoResp EXCEPT !.op = "sweep",
                 !.result = [success |-> success, count |-> count,
                             quizIds |-> quizIds]]

(* lines 27-38: the call computes the cutoff and issues the select *)
CallCleanup(c) ==
  \E shift \in ZoneShifts :
    sweep' = [sweep EXCEPT ![c] = [pc |-> "select",
                                   cutoff |-> toISOString(getRetentionCutoffDate(shift)),
                                   ids |-> {}]]

(* A call of cleanupExpiredQuizzes while none is running *)
SweepStart ==
  /\ sweep[1].pc = "idle"
  /\ CallCleanup(1)
  /\ resp' = NoResp
  /\ UNCHANGED <<now, dbVars, verifyVars, userVars, creation, sched, clientVars, userReqs, overlapped, reqVars>>

(* lines 35-50: the select of the expired quizzes settles; early exit *)
SweepSelectOf(c) ==
  /\ sweep[c].pc = "select"
  /\ \E dbFail \in BOOLEAN :
       LET cutoffDateString == sweep[c].cutoff
           expiredQuizzes == {q \in quizzes : textLt(q.createdAt, cutoffDateString)}
           expiredQuizIds == {q.id : q \in expiredQuizzes}
       IN IF dbFail
            THEN /\ resp' = SweepReturn(FALSE, 0, {})
                 /\ sweep' = [sweep EXCEPT ![c] = SweepIdle]
          ELSE IF expiredQuizzes = {}
            THEN /\ resp' = SweepReturn(TRUE, 0, {})
                 /\ sweep' = [sweep EXCEPT ![c] = SweepIdle]
          ELSE /\ resp' = NoResp
               /\ sweep' = [sweep EXCEPT ![c] = [SweepIdle EXCEPT
                                                   !.pc = "images",
                                                   !.ids = expiredQuizIds]]
  /\ UNCHANGED <<now, dbVars, verifyVars, userVars, creation, clientVars, userReqs, overlapped, reqVars>>
  /\ sched' = Continuation(sched, resp')

SweepSelect == \E c \in Cycles : SweepSelectOf(c)

(* lines 88-95: the catch of the cycle *)
SweepFail(c) ==
  /\ resp' = SweepReturn(FALSE, 0, {})
  /\ sweep' = [sweep EXCEPT ![c] = SweepIdle]

(* What the image cleanup step leaves in the log: line 57 on an error *)
ImagesLogged(imageError) ==
  [NoResp EXCEPT !.op = "images",
                 !.error = IF imageError THEN "Error cleaning up images" ELSE ""]

SweepImagesUncaught ==
  \E c \in Cycles :
    /\ sweep[c].pc = "images"
    /\ \E imageError \in BOOLEAN :
         IF imageError
           THEN SweepFail(c)
           ELSE /\ sweep' = [sweep EXCEPT ![c].pc = "attempts"]
                /\ resp' = ImagesLogged(FALSE)
    /\ UNCHANGED <<now, dbVars, verifyVars, userVars, creation, clientVars, userReqs, overlapped, reqVars>>
    /\ sched' = Continuation(sched, resp')

(* lines 52-59: the image cleanup settles; an error is caught and logged and
   the cycle goes on to the deletions *)
SweepImages ==
  \E c \in Cycles :
    /\ sweep[c].pc = "images"
    /\ \E imageError \in BOOLEAN : resp' = ImagesLogged(imageError)
    /\ sweep' = [sweep EXCEPT ![c].pc = "attempts"]
    /\ UNCHANGED <<now, dbVars, verifyVars, userVars, creation, clientVars, userReqs, overlapped, reqVars>>
    /\ sched' = Continuation(sched, resp')

(* lines 61-64 *)
SweepDeleteAttempts ==
  \E c \in Cycles :
    /\ sweep[c].pc = "attempts"
    /\ \E dbFail \in BOOLEAN :
         IF dbFail
           THEN SweepFail(c) /\ UNCHANGED attempts
           ELSE /\ attempts' = {a \in attempts : a.quizId \notin sweep[c].ids}
                /\ sweep' = [sweep EXCEPT ![c].pc = "questions"]
                /\ resp' = NoResp
    /\ UNCHANGED <<now, quizzes, nextQuizId, questions, nextQuestionId,
                   nextAttemptId, verifyVars, userVars, creation, clientVars, userReqs, overlapped, reqVars>>
    /\ sched' = Continuation(sched, resp')

(* lines 68-71 *)
SweepDeleteQuestions ==
  \E c \in Cycles :
    /\ sweep[c].pc = "questions"
    /\ \E dbFail \in BOOLEAN :
         IF dbFail
           THEN SweepFail(c) /\ UNCHANGED questions
           ELSE /\ questions' = {q \in questions : q.quizId \notin sweep[c].ids}
                /\ sweep' = [sweep EXCEPT ![c].pc = "quizzes"]
                /\ resp' = NoResp
    /\ UNCHANGED <<now, quizzes, nextQuizId, nextQuestionId, attempts,
                   nextAttemptId, verifyVars, userVars, creation, clientVars, userReqs, overlapped, reqVars>>
    /\ sched' = Continuation(sched, resp')

(* lines 75-87.  The tables shared/schema.ts declares have no reference from
   questions and quiz_attempts to quizzes; the CREATE TABLE statements of
   server/db.ts declare quiz_id REFERENCES quizzes(id) ON DELETE CASCADE,
   and on those tables the delete of a quiz row also removes the questions
   and attempts that name it. *)
SweepDeleteQuizzes ==
  \E c \in Cycles :
    /\ sweep[c].pc = "quizzes"
    /\ \E dbFail \in BOOLEAN, cascade \in BOOLEAN :
         IF dbFail
           THEN SweepFail(c) /\ UNCHANGED <<quizzes, questions, attempts>>
           ELSE /\ quizzes' = {q \in quizzes : q.id \notin sweep[c].ids}
                /\ IF cascade
                     THEN /\ questions' = {q \in questions : q.quizId \notin sweep[c].ids}
                          /\ attempts' = {a \in attempts : a.quizId \notin sweep[c].ids}
                     ELSE UNCHANGED <<questions, attempts>>
                /\ resp' = SweepReturn(TRUE, Cardinality(sweep[c].ids), sweep[c].ids)
                /\ sweep' = [sweep EXCEPT ![c] = SweepIdle]
    /\ UNCHANGED <<now, nextQuizId, nextQuestionId,
                   nextAttemptId, verifyVars, userVars, creation, clientVars, userReqs, overlapped, reqVars>>
    /\ sched' = Continuation(sched, resp')

----------------------------------------------------------------------------
(* The clock *)

TickTo(instants) ==
  /\ \E t \in instants : t > now /\ now' = t
  /\ resp' = NoResp
  /\ UNCHANGED <<dbVars, sweep, verifyVars, userVars, creation, sched, clientVars, userReqs, overlapped, reqVars>>

Tick == TickTo(Instants)
TickSweep == TickTo(SweepInstants)

----------------------------------------------------------------------------
(* scheduleCleanupTask and its timers *)

(* The initial delays the task is scheduled with, in seconds *)
InitialDelays == {0, SevenDays + 1}

(* lines 103-107, 130-132: the initial timeout is created and returned *)
ScheduleCleanupTask ==
  /\ sched.pc = "off"
  /\ \E initialDelay \in InitialDelays :
       sched' = [SchedOff EXCEPT !.pc = "waiting", !.due = now + initialDelay]
  /\ resp' = NoResp
  /\ UNCHANGED <<now, dbVars, sweep, verifyVars, userVars, creation, clientVars, userReqs, overlapped, reqVars>>

(* lines 107-110: the initial timeout fires and its callback calls
   cleanupExpiredQuizzes *)
InitialTimeoutFires ==
  /\ sched.pc = "waiting"
  /\ now = sched.due
  /\ sched' = [sched EXCEPT !.pc = "initialCycle", !.cycles = @ + 1]
  /\ CallCleanup(sched.cycles + 1)
  /\ resp' = NoResp
  /\ UNCHANGED <<now, dbVars, verifyVars, userVars, creation, clientVars, userReqs, overlapped, reqVars>>

(* lines 117-120: the interval fires, 24 hours after it was created or last
   fired, whether or not an earlier callback is still awaiting its cycle,
   and its callback calls cleanupExpiredQuizzes *)
IntervalFires ==
  /\ sched.pc = "armed"
  /\ now = sched.due
  /\ sched.cycles < MaxCycles
  /\ sched' = [sched EXCEPT !.cycles = @ + 1, !.due = @ + Day]
  /\ CallCleanup(sched.cycles + 1)
  /\ resp' = NoResp
  /\ UNCHANGED <<now, dbVars, verifyVars, userVars, creation, clientVars, userReqs, overlapped, reqVars>>

(* clearTimeout / clearInterval of the value scheduleCleanupTask returned,
   the initial timeout: it clears that timeout while it is pending and is
   without effect once it has fired. *)
ClearReturnedHandle ==
  /\ sched.pc # "off"
  /\ ~sched.cancelled
  /\ sched' = [sched EXCEPT !.cancelled = TRUE,
                            !.pc = IF sched.pc = "waiting" THEN "cleared" ELSE @]
  /\ resp' = NoResp
  /\ UNCHANGED <<now, dbVars, sweep, verifyVars, userVars, creation, clientVars, userReqs, overlapped, reqVars>>

(* Time passes until the pending timer is due, whatever cycles are running;
   while the initial callback awaits its cycle, a day passes *)
TickSchedule ==
  \/ /\ sched.pc \in {"waiting", "armed"}
     /\ sched.cycles < MaxCycles
     /\ TickTo({sched.due})
  \/ /\ sched.pc = "initialCycle"
     /\ now = sched.due
     /\ TickTo({sched.due + Day})

----------------------------------------------------------------------------
(* QuizAnswer, the quiz-taking component.  Its state is currentQuestionIndex
   and userAnswers; localStorage holds the two items of the saved progress,
   which the code writes together and removes together.  pc is "unmounted",
   "effect" when a render has committed and its effect is due, or "ready"
   when the component waits for the user.  verify is the call of handleNext
   that awaits its verify request, with the currentQuestionIndex and
   userAnswers of the render in which Next was pressed; left holds the calls
   still awaiting theirs when the page was left.  completed is what
   onComplete was last called with since the page was opened. *)

NoStorage == [present |-> FALSE, answers |-> <<>>, currentIndex |-> 0]
NoCompletion == [called |-> FALSE, answers |-> <<>>, score |-> 0]
NoVerify == [pending |-> FALSE, currentQuestionIndex |-> 0, userAnswers |-> <<>>]
NoTaker == [pc |-> "unmounted", currentQuestionIndex |-> 0, userAnswers |-> <<>>,
            verify |-> NoVerify, left |-> {},
            localStorage |-> NoStorage, completed |-> NoCompletion]

(* response.json() of the verify endpoint: the object { isCorrect } *)
responseJson(isCorrect) == [t |-> "object", isCorrect |-> isCorrect]

(* What a filter callback makes of a value: an object is truthy *)
Truthy(v) == v.t = "object" \/ v.isCorrect

(* updatedAnswers.filter(a => a.isCorrect).length *)
filterLength(answers) == Cardinality({i \in DOMAIN answers : Truthy(answers[i].isCorrect)})

Min(a, b) == IF a <= b THEN a ELSE b

(* The useState initialisers, lines 260-283 *)
TakerMount ==
  /\ taker.pc = "unmounted"
  /\ taker' = [taker EXCEPT
                 !.pc = "effect",
                 !.currentQuestionIndex =
                    IF taker.localStorage.present THEN taker.localStorage.currentIndex ELSE 0,
                 !.userAnswers =
                    IF taker.localStorage.present THEN taker.localStorage.answers ELSE <<>>,
                 !.completed = NoCompletion]
  /\ resp' = NoResp
  /\ UNCHANGED <<now, dbVars, sweep, verifyVars, userVars, creation, sched, form, userReqs, overlapped, reqVars>>

(* The effect of lines 306-320, run after a render in which userAnswers or
   currentQuestionIndex changed *)
TakerEffect ==
  /\ taker.pc = "effect"
  /\ taker' = [taker EXCEPT
                 !.pc = "ready",
                 !.localStorage =
                    IF Len(taker.userAnswers) > 0
                      THEN [present |-> TRUE, answers |-> taker.userAnswers,
                            currentIndex |-> taker.currentQuestionIndex]
                    ELSE @]
  /\ resp' = NoResp
  /\ UNCHANGED <<now, dbVars, sweep, verifyVars, userVars, creation, sched, form, userReqs, overlapped, reqVars>>

(* handleNext with an option selected, lines 332-345: the verify request is
   sent and awaited.  The button is disabled while a request of this
   component is pending (line 572), not after onComplete.  A session
   restored from saved progress starts with the saved answers, so the list
   can outgrow the quiz; MaxAnswers bounds it. *)
HandleNext ==
  /\ taker.pc = "ready"
  /\ ~taker.verify.pending
  /\ Len(taker.userAnswers) < MaxAnswers
  /\ taker' = [taker EXCEPT
                 !.verify = [pending |-> TRUE,
                             currentQuestionIndex |-> taker.currentQuestionIndex,
                             userAnswers |-> taker.userAnswers]]
  /\ resp' = NoResp
  /\ UNCHANGED <<now, dbVars, sweep, verifyVars, userVars, creation, sched, form, userReqs, overlapped, reqVars>>

(* handleNext after the await, lines 347-387, for the call `call` and the
   isCorrect the request resolved with: what it computes from the values of
   its render *)
updatedAnswersOf(call, isCorrect) ==
  Append(call.userAnswers,
         [questionId |-> call.currentQuestionIndex + 1, isCorrect |-> isCorrect])

isLastQuestion(call) == call.currentQuestionIndex = QuestionCount - 1

onCompleteOf(call, isCorrect) ==
  [called |-> TRUE, answers |-> updatedAnswersOf(call, isCorrect),
   score |-> Min(filterLength(updatedAnswersOf(call, isCorrect)), QuestionCount)]

(* The verify request of the mounted component settles: a failure is a toast
   (lines 392-398); otherwise the answer is recorded and either the quiz is
   completed, the two items removed and onComplete called, or the next
   question shown *)
VerifySettles ==
  /\ taker.verify.pending
  /\ \E failed \in BOOLEAN, verdict \in BOOLEAN :
       LET call == taker.verify
           isCorrect == responseJson(verdict)
       IN IF failed THEN taker' = [taker EXCEPT !.verify = NoVerify]
          ELSE IF isLastQuestion(call)
            THEN taker' = [taker EXCEPT
                             !.pc = "effect",
                             !.verify = NoVerify,
                             !.userAnswers = updatedAnswersOf(call, isCorrect),
                             !.localStorage = NoStorage,
                             !.completed = onCompleteOf(call, isCorrect)]
          ELSE taker' = [taker EXCEPT
                           !.pc = "effect",
                           !.verify = NoVerify,
                           !.userAnswers = updatedAnswersOf(call, isCorrect),
                           !.currentQuestionIndex = call.currentQuestionIndex + 1]
  /\ resp' = NoResp
  /\ UNCHANGED <<now, dbVars, sweep, verifyVars, userVars, creation, sched, form, userReqs, overlapped, reqVars>>

(* The verify request of a component that was left settles: the state
   setters reach nothing, the two items are removed all the same and
   onComplete is called *)
VerifySettlesLate ==
  /\ \E call \in taker.left, failed \in BOOLEAN, verdict \in BOOLEAN :
       LET isCorrect == responseJson(verdict)
       IN IF failed \/ ~isLastQuestion(call)
            THEN taker' = [taker EXCEPT !.left = @ \ {call}]
          ELSE taker' = [taker EXCEPT
                           !.left = @ \ {call},
                           !.localStorage = NoStorage,
                           !.completed = onCompleteOf(call, isCorrect)]
  /\ resp' = NoResp
  /\ UNCHANGED <<now, dbVars, sweep, verifyVars, userVars, creation, sched, form, userReqs, overlapped, reqVars>>

(* handleBack, lines 401-411; the button is disabled on the first question
   and while a verify request is pending (line 564) *)
HandleBack ==
  /\ taker.pc = "ready"
  /\ ~taker.verify.pending
  /\ taker.currentQuestionIndex > 0
  /\ taker' = [taker EXCEPT
                 !.pc = "effect",
                 !.userAnswers = SubSeq(@, 1, Len(@) - 1),
                 !.currentQuestionIndex = @ - 1]
  /\ resp' = NoResp
  /\ UNCHANGED <<now, dbVars, sweep, verifyVars, userVars, creation, sched, form, userReqs, overlapped, reqVars>>

(* The page is left: the component state is gone, localStorage stays, and a
   call of handleNext that awaits its request goes on awaiting *)
TakerUnmount ==
  /\ taker.pc = "ready"
  /\ taker.verify.pending => Cardinality(taker.left) < MaxLeft
  /\ taker' = [taker EXCEPT
                 !.pc = "unmounted", !.currentQuestionIndex = 0,
                 !.userAnswers = <<>>,
                 !.verify = NoVerify,
                 !.left = IF taker.verify.pending
                            THEN @ \cup {[currentQuestionIndex |-> taker.verify.currentQuestionIndex,
                                          userAnswers |-> taker.verify.userAnswers]}
                          ELSE @]
  /\ resp' = NoResp
  /\ UNCHANGED <<now, dbVars, sweep, verifyVars, userVars, creation, sched, form, userReqs, overlapped, reqVars>>

(* The mount effect of the creation page (QuizCreation.tsx 50-84) in this
   browser: localStorage.clear() removes the saved progress of every quiz *)
QuizCreationMountClears ==
  /\ taker.localStorage.present
  /\ taker' = [taker EXCEPT !.localStorage = NoStorage]
  /\ resp' = NoResp
  /\ UNCHANGED <<now, dbVars, sweep, verifyVars, userVars, creation, sched, form, userReqs, overlapped, reqVars>>

----------------------------------------------------------------------------
(* The quiz-creation forms: QuizCreationNew.tsx (one correct option, editing
   in place) and client QuizCreation.tsx (a correct flag per option).  Array
   indices are those of the code, from 0; Null stands for null.  image tells
   whether a file is chosen (questionImage, selectedFile); the preview and
   the imageUrl of a question are shown only and no handler of the model
   reads them.  uploads is the bag of the handlers waiting for their upload,
   each with the values of the render in which its button was pressed (two
   presses in one render make two handlers with the same values); during
   counts the events since an upload has been pending.  opened is the question that
   handleEditQuestion loaded, kept for the properties. *)

Null == -1

FormOption(text, isCorrect) == [text |-> text, isCorrect |-> isCorrect]
FormItem(text, options) == [text |-> text, options |-> options]
NoFormItem == FormItem(<<>>, <<>>)

(* An array slot that was never assigned, and the element undefined that a
   copy [...array] has in its place *)
Hole == FormItem(<<"empty">>, <<>>)
Undefined == FormItem(<<"undefined">>, <<>>)

NoForm == [component |-> "none", questions |-> <<>>, questionText |-> <<>>,
           options |-> <<>>, correctOption |-> Null, correctAnswers |-> <<>>,
           editingIndex |-> Null, opened |-> NoFormItem, image |-> FALSE,
           uploads |-> EmptyBag, during |-> 0]

(* What the user can type *)
QuestionTexts == {<<>>, <<" ">>, <<"q">>}
OptionTexts == {<<>>, <<"a">>}
OptionLists == UNION {[1..k -> OptionTexts] : k \in 0..MaxEditorOptions}

(* The values a handler reads: those of the render that created it *)
Render ==
  [questions |-> form.questions, questionText |-> form.questionText,
   options |-> form.options, correctOption |-> form.correctOption,
   correctAnswers |-> form.correctAnswers, editingIndex |-> form.editingIndex]

(* An event of the page sets the state to next; while an upload is pending
   at most MaxDuringUpload events are followed *)
UserEvent(next) ==
  /\ form.uploads # EmptyBag => form.during < MaxDuringUpload
  /\ form' = [next EXCEPT !.during = IF form.uploads = EmptyBag THEN 0 ELSE form.during + 1]

(* options.map((text, index) => ({ text, isCorrect })).filter(opt => opt.text.trim() !== '') *)
IsFilled(opt) == trim(opt.text) # <<>>
validOptions(marked) == SelectSeq(marked, IsFilled)

(* [...questions]: an empty slot becomes an element undefined *)
Spread(list) == [i \in DOMAIN list |-> IF list[i] = Hole THEN Undefined ELSE list[i]]

(* updatedQuestions[index] = value, on a copy of the array: the slots
   between the old length and index stay empty *)
ArraySet(list, index, value) ==
  [i \in 1..(IF index + 1 > Len(list) THEN index + 1 ELSE Len(list)) |->
     IF i = index + 1 THEN value
     ELSE IF i <= Len(list) THEN list[i]
     ELSE Hole]

(* questions.filter((_, i) => i !== index): filter skips the empty slots,
   so they are dropped with the element at index *)
filterIndex(list, index) ==
  LET kept == {i \in DOMAIN list : i # index + 1 /\ list[i] # Hole}
  IN [k \in 1..Cardinality(kept) |->
        list[CHOOSE i \in kept : Cardinality({j \in kept : j < i}) = k - 1]]

(* newQuestions.splice(index, 1) on a copy, and filter((_, i) => i !== index),
   of an array without empty slots *)
ArrayRemove(list, index) ==
  [i \in 1..(Len(list) - 1) |-> IF i <= index THEN list[i] ELSE list[i + 1]]

(* question.options.findIndex(opt => opt.isCorrect) *)
findIndex(options) ==
  IF \E i \in DOMAIN options : options[i].isCorrect
    THEN (CHOOSE i \in DOMAIN options :
            /\ options[i].isCorrect
            /\ \A j \in 1..(i - 1) : ~options[j].isCorrect) - 1
    ELSE -1

(* The component mounts with its initial state: QuizCreationNew lines 35-43,
   QuizCreation lines 13-21 *)
FormMountOf(components) ==
  /\ form.component = "none"
  /\ \E component \in components :
       form' = IF component = "QuizCreationNew"
                 THEN [NoForm EXCEPT !.component = component,
                                     !.options = <<<<>>, <<>>>>]
                 ELSE [NoForm EXCEPT !.component = component,
                                     !.options = <<<<>>, <<>>, <<>>, <<>>>>,
                                     !.correctAnswers = <<FALSE, FALSE, FALSE, FALSE>>]
  /\ resp' = NoResp
  /\ UNCHANGED <<now, dbVars, sweep, verifyVars, userVars, creation, sched, taker, userReqs, overlapped, reqVars>>

FormMount == FormMountOf({"QuizCreationNew", "QuizCreation"})

(* QuizCreationNew, line 256: onChange of the question field *)
setQuestionText(texts) ==
  /\ form.component = "QuizCreationNew"
  /\ \E text \in texts : UserEvent([form EXCEPT !.questionText = text])
  /\ resp' = NoResp
  /\ UNCHANGED <<now, dbVars, sweep, verifyVars, userVars, creation, sched, taker, userReqs, overlapped, reqVars>>

(* QuizCreationNew, lines 304-309: the option editor sets the list of
   option texts *)
setOptions(optionLists) ==
  /\ form.component = "QuizCreationNew"
  /\ \E options \in optionLists : UserEvent([form EXCEPT !.options = options])
  /\ resp' = NoResp
  /\ UNCHANGED <<now, dbVars, sweep, verifyVars, userVars, creation, sched, taker, userReqs, overlapped, reqVars>>

(* QuizCreationNew, lines 304-309: the option editor marks one of the
   options shown, or none *)
setCorrectOption ==
  /\ form.component = "QuizCreationNew"
  /\ \E correctOption \in {Null} \cup (0..(Len(form.options) - 1)) :
       UserEvent([form EXCEPT !.correctOption = correctOption])
  /\ resp' = NoResp
  /\ UNCHANGED <<now, dbVars, sweep, verifyVars, userVars, creation, sched, taker, userReqs, overlapped, reqVars>>

(* QuizCreationNew.handleImageChange, lines 89-107, with a file of an
   accepted size.  The file input shows while no image is previewed (line
   266); choosing again after a removal gives a file as well. *)
handleImageChange ==
  /\ form.component = "QuizCreationNew"
  /\ ~form.image
  /\ UserEvent([form EXCEPT !.image = TRUE])
  /\ resp' = NoResp
  /\ UNCHANGED <<now, dbVars, sweep, verifyVars, userVars, creation, sched, taker, userReqs, overlapped, reqVars>>

(* QuizCreationNew.handleRemoveImage, lines 109-115; without a file chosen
   it changes the preview only *)
handleRemoveImage ==
  /\ form.component = "QuizCreationNew"
  /\ form.image
  /\ UserEvent([form EXCEPT !.image = FALSE])
  /\ resp' = NoResp
  /\ UNCHANGED <<now, dbVars, sweep, verifyVars, userVars, creation, sched, taker, userReqs, overlapped, reqVars>>

(* QuizCreation.handleQuestionChange, lines 48-53 *)
handleQuestionChange ==
  /\ form.component = "QuizCreation"
  /\ \E value \in QuestionTexts : UserEvent([form EXCEPT !.questionText = value])
  /\ resp' = NoResp
  /\ UNCHANGED <<now, dbVars, sweep, verifyVars, userVars, creation, sched, taker, userReqs, overlapped, reqVars>>

(* QuizCreation.handleOptionChange, lines 55-62 *)
handleOptionChange ==
  /\ form.component = "QuizCreation"
  /\ \E index \in 0..(Len(form.options) - 1), value \in OptionTexts :
       UserEvent([form EXCEPT !.options = ArraySet(@, index, value)])
  /\ resp' = NoResp
  /\ UNCHANGED <<now, dbVars, sweep, verifyVars, userVars, creation, sched, taker, userReqs, overlapped, reqVars>>

(* QuizCreation.handleCorrectAnswerChange, lines 64-71 *)
handleCorrectAnswerChange ==
  /\ form.component = "QuizCreation"
  /\ \E index \in 0..(Len(form.correctAnswers) - 1) :
       UserEvent([form EXCEPT !.correctAnswers = ArraySet(@, index, ~@[index + 1])])
  /\ resp' = NoResp
  /\ UNCHANGED <<now, dbVars, sweep, verifyVars, userVars, creation, sched, taker, userReqs, overlapped, reqVars>>

(* QuizCreation.addOption, lines 73-79 *)
addOption ==
  /\ form.component = "QuizCreation"
  /\ Len(form.options) < MaxFormOptions
  /\ UserEvent([form EXCEPT !.options = Append(@, <<>>),
                            !.correctAnswers = Append(@, FALSE)])
  /\ resp' = NoResp
  /\ UNCHANGED <<now, dbVars, sweep, verifyVars, userVars, creation, sched, taker, userReqs, overlapped, reqVars>>

(* QuizCreation.removeOption, lines 81-89; its button shows while there are
   more than two options (line 318) *)
removeOption ==
  /\ form.component = "QuizCreation"
  /\ Len(form.options) > 2
  /\ \E index \in 0..(Len(form.options) - 1) :
       UserEvent([form EXCEPT !.options = ArrayRemove(@, index),
                              !.correctAnswers = ArrayRemove(@, index)])
  /\ resp' = NoResp
  /\ UNCHANGED <<now, dbVars, sweep, verifyVars, userVars, creation, sched, taker, userReqs, overlapped, reqVars>>

(* QuizCreation.handleFileChange, lines 91-101, with a file; with a file
   chosen already it replaces one file by another *)
handleFileChange ==
  /\ form.component = "QuizCreation"
  /\ ~form.image
  /\ UserEvent([form EXCEPT !.image = TRUE])
  /\ resp' = NoResp
  /\ UNCHANGED <<now, dbVars, sweep, verifyVars, userVars, creation, sched, taker, userReqs, overlapped, reqVars>>

(* QuizCreation, lines 284-299: the Remove Image button; without a file
   chosen it changes the preview only *)
removeImage ==
  /\ form.component = "QuizCreation"
  /\ form.image
  /\ UserEvent([form EXCEPT !.image = FALSE])
  /\ resp' = NoResp
  /\ UNCHANGED <<now, dbVars, sweep, verifyVars, userVars, creation, sched, taker, userReqs, overlapped, reqVars>>

(* QuizCreationNew, lines 117-138 *)
validateQuestion ==
  /\ trim(form.questionText) # <<>>
  /\ Len(SelectSeq(form.options, LAMBDA opt : trim(opt) # <<>>)) >= 2
  /\ form.correctOption # Null

(* QuizCreationNew, lines 156-164: the question built from the fields of
   the render *)
newQuestion(render) ==
  FormItem(render.questionText,
           validOptions([i \in DOMAIN render.options |->
                           FormOption(render.options[i], i - 1 = render.correctOption)]))

(* QuizCreationNew.handleAddQuestion, lines 167-186: the question is stored
   at editingIndex of a copy of the render's list, or appended to it, and
   the fields are reset *)
questionSaved(render) ==
  [form EXCEPT
     !.questions =
        IF render.editingIndex # Null
          THEN ArraySet(Spread(render.questions), render.editingIndex, newQuestion(render))
          ELSE Append(Spread(render.questions), newQuestion(render)),
     !.editingIndex = IF render.editingIndex # Null THEN Null ELSE @,
     !.questionText = <<>>,
     !.image = FALSE,
     !.options = <<<<>>, <<>>>>,
     !.correctOption = Null]

(* QuizCreationNew.handleAddQuestion, lines 140-190, up to the await of line
   148 when a file is chosen and to its end when none is.  The button is
   disabled while an upload is pending (line 316). *)
handleAddQuestion ==
  /\ form.component = "QuizCreationNew"
  /\ form.uploads = EmptyBag
  /\ (form.editingIndex # Null \/ Len(form.questions) < MaxFormQuestions)
  /\ IF ~validateQuestion THEN UNCHANGED form
     ELSE IF form.image THEN UserEvent([form EXCEPT !.uploads = SetToBag({Render})])
     ELSE UserEvent(questionSaved(Render))
  /\ resp' = NoResp
  /\ UNCHANGED <<now, dbVars, sweep, verifyVars, userVars, creation, sched, taker, userReqs, overlapped, reqVars>>

(* QuizCreationNew.handleAddQuestion, lines 148-190: the upload settles.  A
   failed upload ends the handler (lines 149-152); after the others it goes
   on with the values of the render in which the button was pressed. *)
handleAddQuestionResumes ==
  /\ form.component = "QuizCreationNew"
  /\ \E render \in BagToSet(form.uploads), uploadFails \in BOOLEAN :
       form' = [(IF uploadFails THEN form ELSE questionSaved(render))
                  EXCEPT !.uploads = form.uploads (-) SetToBag({render}), !.during = 0]
  /\ resp' = NoResp
  /\ UNCHANGED <<now, dbVars, sweep, verifyVars, userVars, creation, sched, taker, userReqs, overlapped, reqVars>>

(* QuizCreationNew.handleEditQuestion, lines 192-205; on an empty slot or an
   element undefined the handler throws at question.text and sets nothing *)
handleEditQuestion ==
  /\ form.component = "QuizCreationNew"
  /\ \E index \in 0..(Len(form.questions) - 1) :
       LET question == form.questions[index + 1]
           questionOptions == [i \in DOMAIN question.options |-> question.options[i].text]
           correctIndex == findIndex(question.options)
       IN /\ question \notin {Hole, Undefined}
          /\ UserEvent([form EXCEPT
                          !.questionText = question.text,
                          !.options = IF Len(questionOptions) >= 2 THEN questionOptions
                                      ELSE Append(questionOptions, <<>>),
                          !.correctOption = IF correctIndex >= 0 THEN correctIndex ELSE Null,
                          !.editingIndex = index,
                          !.opened = question])
  /\ resp' = NoResp
  /\ UNCHANGED <<now, dbVars, sweep, verifyVars, userVars, creation, sched, taker, userReqs, overlapped, reqVars>>

(* QuizCreationNew.handleDeleteQuestion, lines 207-211 *)
handleDeleteQuestion ==
  /\ form.component = "QuizCreationNew"
  /\ \E index \in 0..(Len(form.questions) - 1) :
       UserEvent([form EXCEPT !.questions = filterIndex(@, index)])
  /\ resp' = NoResp
  /\ UNCHANGED <<now, dbVars, sweep, verifyVars, userVars, creation, sched, taker, userReqs, overlapped, reqVars>>

(* QuizCreation.addQuestion, lines 150-180: the question built from the
   render's current question is appended to the render's list, and the
   fields are reset *)
questionAdded(render) ==
  [form EXCEPT
     !.questions =
        Append(render.questions,
               FormItem(render.questionText,
                        validOptions([i \in DOMAIN render.options |->
                                        FormOption(render.options[i], render.correctAnswers[i])]))),
     !.questionText = <<>>,
     !.options = <<<<>>, <<>>, <<>>, <<>>>>,
     !.correctAnswers = <<FALSE, FALSE, FALSE, FALSE>>,
     !.image = FALSE]

(* QuizCreation.addQuestion, lines 124-181, up to the await of line 147 when
   a file is chosen and to its end when none is.  The handler sets no state
   before the await and the button stays enabled during an upload (line
   344): every press adds a waiting handler, MaxUploads at most. *)
addQuestion ==
  /\ form.component = "QuizCreation"
  /\ Len(form.questions) < MaxFormAdded
  /\ LET filledOptions == SelectSeq(form.options, LAMBDA opt : trim(opt) # <<>>)
     IN IF \/ trim(form.questionText) = <<>>
           \/ Len(filledOptions) < 2
           \/ ~\E i \in DOMAIN form.correctAnswers : form.correctAnswers[i]
          THEN UNCHANGED form
        ELSE IF form.image
          THEN /\ BagCardinality(form.uploads) < MaxUploads
               /\ UserEvent([form EXCEPT !.uploads = @ (+) SetToBag({Render})])
        ELSE UserEvent(questionAdded(Render))
  /\ resp' = NoResp
  /\ UNCHANGED <<now, dbVars, sweep, verifyVars, userVars, creation, sched, taker, userReqs, overlapped, reqVars>>

(* QuizCreation.addQuestion, lines 147-181: uploadImage settles, with the
   URL or, after a failure, with '' (lines 118-121), and the handler goes on
   with the values of the render in which the button was pressed *)
addQuestionResumes ==
  /\ form.component = "QuizCreation"
  /\ \E render \in BagToSet(form.uploads) :
       form' = [questionAdded(render)
                  EXCEPT !.uploads = form.uploads (-) SetToBag({render}),
                         !.during = IF BagCardinality(form.uploads) = 1 THEN 0 ELSE @]
  /\ resp' = NoResp
  /\ UNCHANGED <<now, dbVars, sweep, verifyVars, userVars, creation, sched, taker, userReqs, overlapped, reqVars>>

(* QuizCreation.editQuestion, lines 183-206: loads the question into the
   form and removes it from the list *)
editQuestion ==
  /\ form.component = "QuizCreation"
  /\ \E index \in 0..(Len(form.questions) - 1) :
       LET questionToEdit == form.questions[index + 1]
       IN UserEvent([form EXCEPT
                       !.questionText = questionToEdit.text,
                       !.options = [i \in DOMAIN questionToEdit.options |->
                                      questionToEdit.options[i].text],
                       !.correctAnswers = [i \in DOMAIN questionToEdit.options |->
                                             questionToEdit.options[i].isCorrect],
                       !.questions = ArrayRemove(@, index)])
  /\ resp' = NoResp
  /\ UNCHANGED <<now, dbVars, sweep, verifyVars, userVars, creation, sched, taker, userReqs, overlapped, reqVars>>

(* QuizCreation.deleteQuestion, lines 208-213 *)
deleteQuestion ==
  /\ form.component = "QuizCreation"
  /\ \E index \in 0..(Len(form.questions) - 1) :
       UserEvent([form EXCEPT !.questions = ArrayRemove(@, index)])
  /\ resp' = NoResp
  /\ UNCHANGED <<now, dbVars, sweep, verifyVars, userVars, creation, sched, taker, userReqs, overlapped, reqVars>>

----------------------------------------------------------------------------
(* POST /api/questions/:questionId/verify *)

Chars == {"a", "A", "b", " "}
SeqsUpTo(S, n) == UNION {[1..k -> S] : k \in 0..n}
Strings == SeqsUpTo(Chars, MaxLen)

(* The strings that occur as elements of lists: two words, two spellings each *)
Words == {<<"a">>, <<"A", " ">>, <<" ", "b">>, <<"B">>}

(* The text of the correct_answers column, by what JSON.parse makes of it:
   not JSON at all ("garbage"), or the JSON value it denotes. *)
JsonText(t, str, items) == [t |-> t, s |-> str, items |-> items]
JsonItem(t, str) == [t |-> t, s |-> str]
Items == {JsonItem("str", str) : str \in Words} \cup {JsonItem("num", <<>>)}
Garbage == JsonText("garbage", <<>>, <<>>)
StoredTexts ==
  {Garbage, JsonText("null", <<>>, <<>>), JsonText("num", <<>>, <<>>)}
    \cup {JsonText("str", str, <<>>) : str \in Words}
    \cup {JsonText("arr", <<>>, items) : items \in SeqsUpTo(Items, MaxCorrect)}

NoQuestion == [id |-> 0, correctAnswers |-> Garbage]
StoredQuestions == {[id |-> 1, correctAnswers |-> text] : text \in StoredTexts}

(* The request: a non-numeric id, a body the schema rejects, a string answer
   or an array answer *)
VerifyRequest(kind, str, list) == [kind |-> kind, s |-> str, list |-> list]
NoAnswer == VerifyRequest("none", <<>>, <<>>)
VerifyRequests ==
  {VerifyRequest("nanId", <<>>, <<>>), VerifyRequest("invalid", <<>>, <<>>)}
    \cup {VerifyRequest("string", str, <<>>) : str \in Strings}
    \cup {VerifyRequest("array", <<>>, list) : list \in SeqsUpTo(Words, MaxCandidates)}

Verdict(threw, isCorrect) == [threw |-> threw, isCorrect |-> isCorrect]

(* JSON.parse(question.correctAnswers) *)
JSONparse(text) == [threw |-> text.t = "garbage", value |-> text]

(* correctAnswers.some(correct => correct.toLowerCase().trim() === x) *)
RECURSIVE some(_, _)
some(items, x) ==
  IF items = <<>> THEN Verdict(FALSE, FALSE)
  ELSE IF Head(items).t # "str" THEN Verdict(TRUE, FALSE)
  ELSE IF trim(toLowerCase(Head(items).s)) = x THEN Verdict(FALSE, TRUE)
  ELSE some(Tail(items), x)

VerifyArrayByLength(correctAnswers, userAnswer) ==
  IF correctAnswers.t # "arr" THEN Verdict(TRUE, FALSE)
  ELSE IF \E i \in 1..Len(correctAnswers.items) : correctAnswers.items[i].t # "str"
    THEN Verdict(TRUE, FALSE)
  ELSE
    LET userAnswersSet == {trim(toLowerCase(userAnswer[i])) : i \in 1..Len(userAnswer)}
        correctAnswersSet == {trim(toLowerCase(correctAnswers.items[i].s)) :
                                i \in 1..Len(correctAnswers.items)}
    IN Verdict(FALSE, /\ Len(userAnswer) = Len(correctAnswers.items)
                      /\ \A ans \in userAnswersSet : ans \in correctAnswersSet)

(* lines 459-464: the array branch *)
VerifyArray(correctAnswers, userAnswer) ==
  IF correctAnswers.t # "arr" THEN Verdict(TRUE, FALSE)
  ELSE IF \E i \in 1..Len(correctAnswers.items) : correctAnswers.items[i].t # "str"
    THEN Verdict(TRUE, FALSE)
  ELSE
    LET userAnswersSet == {trim(toLowerCase(userAnswer[i])) : i \in 1..Len(userAnswer)}
        correctAnswersSet == {trim(toLowerCase(correctAnswers.items[i].s)) :
                                i \in 1..Len(correctAnswers.items)}
    IN Verdict(FALSE, /\ Cardinality(userAnswersSet) = Cardinality(correctAnswersSet)
                      /\ \A ans \in userAnswersSet : ans \in correctAnswersSet)

VerifySingleNoTrim(correctAnswers, userAnswer) ==
  IF correctAnswers.t # "arr" THEN Verdict(TRUE, FALSE)
  ELSE some(correctAnswers.items, toLowerCase(userAnswer))

(* lines 465-471: the single answer branch *)
VerifySingle(correctAnswers, userAnswer) ==
  IF correctAnswers.t # "arr" THEN Verdict(TRUE, FALSE)
  ELSE some(correctAnswers.items, trim(toLowerCase(userAnswer)))

(* The handler: 400 for a bad id or body, then the select of line 440, whose
   rejection the catch of lines 484-490 answers with 500 like every other
   throw; error is the message of the logged error (line 485). *)
VerifyResponse(question, request, dbFail) ==
  LET R(status, message, error, isCorrect) ==
        [Response("verify", NoReq, status, NoQuiz, FALSE, error, message)
           EXCEPT !.isCorrect = isCorrect]
  IN IF request.kind = "nanId" THEN R(400, "Invalid question ID", "", FALSE)
     ELSE IF request.kind = "invalid" THEN R(400, "Invalid answer data", "", FALSE)
     ELSE IF dbFail THEN R(500, "Failed to verify answer", "database", FALSE)
     ELSE IF question = NoQuestion THEN R(404, "Question not found", "", FALSE)
     ELSE IF JSONparse(question.correctAnswers).threw
       THEN R(500, "Failed to verify answer", "SyntaxError", FALSE)
     ELSE
       LET correctAnswers == JSONparse(question.correctAnswers).value
           v == IF request.kind = "array"
                  THEN VerifyArray(correctAnswers, request.list)
                  ELSE VerifySingle(correctAnswers, request.s)
       IN IF v.threw THEN R(500, "Failed to verify answer", "TypeError", FALSE)
          ELSE R(200, "", "", v.isCorrect)

PostVerify ==
  /\ vAnswer = NoAnswer
  /\ \E request \in VerifyRequests, dbFail \in BOOLEAN :
       /\ vAnswer' = request
       /\ resp' = VerifyResponse(vQuestion, request, dbFail)
  /\ UNCHANGED <<now, dbVars, sweep, vQuestion, userVars, creation, sched, clientVars, userReqs, overlapped, reqVars>>

InitVerify ==
  /\ now = 0
  /\ quizzes = {}
  /\ nextQuizId = 1
  /\ questions = {}
  /\ nextQuestionId = 1
  /\ attempts = {}
  /\ nextAttemptId = 1
  /\ sweep = NoSweeps
  /\ resp = NoResp
  /\ vQuestion \in StoredQuestions \cup {NoQuestion}
  /\ vAnswer = NoAnswer
  /\ users = {}
  /\ nextUserId = 1
  /\ creation = NoCreation
  /\ sched = SchedOff
  /\ taker = NoTaker
  /\ form = NoForm
  /\ userReqs = {}
  /\ overlapped = FALSE
  /\ slugReqs = {}
  /\ posts = NoPosts
  /\ quizPost = FALSE
  /\ replies = NoReplies

NextVerify == PostVerify

SpecVerify == InitVerify /\ [][NextVerify]_vars

(* A quiz row that is in the table when the server starts: the tables
   outlive the process (server/db.ts opens them, CREATE TABLE IF NOT EXISTS) *)
StockedQuiz(id) ==
  [id |-> id, creatorName |-> <<"a", "m", "y">>, accessCode |-> GeneratedCodes[id],
   urlSlug |-> GeneratedSlugs[id], dashboardToken |-> GeneratedTokens[id],
   createdAt |-> toISOString(0)]

(* A question and an attempt of quiz id that are in the tables then *)
StockedQuestion(id) ==
  [id |-> id, quizId |-> id, options |-> FormQuestion(id).options,
   correctAnswers |-> FormQuestion(id).correctAnswers]

StockedAttempt(id) ==
  [id |-> id, quizId |-> id, score |-> 3, totalQuestions |-> 5,
   completedAt |-> toISOString(0)]

(* The server starts with the quizzes 1..n in the table, a question for each
   of the first nq of them and an attempt for each of the first na *)
InitWith(n, nq, na) ==
  /\ now = 0
  /\ quizzes = {StockedQuiz(id) : id \in 1..n}
  /\ nextQuizId = n + 1
  /\ questions = {StockedQuestion(id) : id \in 1..nq}
  /\ nextQuestionId = nq + 1
  /\ attempts = {StockedAttempt(id) : id \in 1..na}
  /\ nextAttemptId = na + 1
  /\ sweep = NoSweeps
  /\ resp = NoResp
  /\ vQuestion = NoQuestion
  /\ vAnswer = NoAnswer
  /\ users = {}
  /\ nextUserId = 1
  /\ creation = NoCreation
  /\ sched = SchedOff
  /\ taker = NoTaker
  /\ form = NoForm
  /\ userReqs = {}
  /\ overlapped = FALSE
  /\ slugReqs = {}
  /\ posts = NoPosts
  /\ quizPost = FALSE
  /\ replies = NoReplies

Init == InitWith(0, 0, 0)

InitStocked == \E n \in 0..MaxQuizzes : InitWith(n, 0, 0)

(* Quizzes with a question and an attempt each, as far as the bounds go *)
InitStockedRows ==
  \E n \in 0..MaxQuizzes :
    InitWith(n, IF n < MaxQuestions THEN n ELSE MaxQuestions,
                IF n < MaxAttempts THEN n ELSE MaxAttempts)

(* Quiz creation with any identifiers next to the lookups by a unique key *)
Next ==
  \/ Tick
  \/ PostQuiz
  \/ GetQuizByCode
  \/ GetQuizByDashboard
  \/ GetQuizById

Spec == Init /\ [][Next]_vars

(* The four read paths next to the creation of quizzes whose slugs differ in
   letter case only *)
NextRead ==
  \/ Tick
  \/ PostQuizCased
  \/ GetQuizByCode
  \/ GetQuizBySlug
  \/ SlugFallback
  \/ GetQuizByDashboard
  \/ GetQuizById

SpecRead == Init /\ [][NextRead]_vars

NextSweep ==
  \/ TickSweep
  \/ PostQuizGenerated
  \/ PostQuestionIssued
  \/ PostAttemptFromClient
  \/ SweepStart
  \/ SweepSelect
  \/ SweepImages
  \/ SweepDeleteAttempts
  \/ SweepDeleteQuestions
  \/ SweepDeleteQuizzes

SpecSweep == Init /\ [][NextSweep]_vars

NextAttempts ==
  \/ PostQuizGenerated
  \/ PostQuestion
  \/ PostAttempt

SpecAttempts == Init /\ [][NextAttempts]_vars

(* Readers of the quiz and attempt tables, next to the posts that fill them *)
TickAccess == TickTo({0, 1})

NextAccess ==
  \/ TickAccess
  \/ PostQuizGenerated
  \/ PostAttemptListed
  \/ GetQuizzes
  \/ GetQuizByCode
  \/ GetQuizBySlug
  \/ SlugFallback
  \/ GetQuizById
  \/ GetAttempts
  \/ GetAttempt

SpecAccess == Init /\ [][NextAccess]_vars

(* The scheduled sweeper on the tables it finds when the server starts.
   Every step the code performs by itself is taken
   eventually; the image cleanup is an external call that need not settle,
   and requests and the clearing of the handle need not come. *)
NextSchedule ==
  \/ ScheduleCleanupTask
  \/ TickSchedule
  \/ InitialTimeoutFires
  \/ IntervalFires
  \/ ClearReturnedHandle
  \/ SweepSelect
  \/ SweepImages
  \/ SweepDeleteAttempts
  \/ SweepDeleteQuestions
  \/ SweepDeleteQuizzes

SpecSchedule == InitStocked /\ [][NextSchedule]_vars

SpecScheduleFair ==
  /\ InitStocked
  /\ [][NextSchedule]_vars
  /\ WF_vars(ScheduleCleanupTask)
  /\ WF_vars(TickSchedule)
  /\ WF_vars(InitialTimeoutFires)
  /\ WF_vars(IntervalFires)
  /\ WF_vars(SweepSelect)
  /\ WF_vars(SweepDeleteAttempts)
  /\ WF_vars(SweepDeleteQuestions)
  /\ WF_vars(SweepDeleteQuizzes)

(* The scheduled sweeper on tables that hold questions and attempts.  The
   timers fire and the database statements settle; nothing makes the image
   cleanup of a cycle settle. *)

NextRetry ==
  \/ ScheduleCleanupTask
  \/ TickSchedule
  \/ InitialTimeoutFires
  \/ IntervalFires
  \/ SweepSelect
  \/ SweepImages
  \/ SweepDeleteAttempts
  \/ SweepDeleteQuestions
  \/ SweepDeleteQuizzes

SpecRetryFair ==
  /\ InitStockedRows
  /\ [][NextRetry]_vars
  /\ WF_vars(ScheduleCleanupTask)
  /\ WF_vars(TickSchedule)
  /\ WF_vars(InitialTimeoutFires)
  /\ WF_vars(IntervalFires)
  /\ WF_vars(SweepSelect)
  /\ WF_vars(SweepDeleteAttempts)
  /\ WF_vars(SweepDeleteQuestions)
  /\ WF_vars(SweepDeleteQuizzes)

(* Quiz creation under every kind of creator name *)
NextNames == PostQuizNamed

SpecNames == Init /\ [][NextNames]_vars

(* User creation: the requests arrive at any time, so that the awaits of
   one interleave with those of another *)
NextUsers ==
  \/ UserSelect
  \/ UserInsert

SpecUsers == Init /\ [][NextUsers]_vars

(* The endpoints keyed by a quiz, before and after the quiz expires *)
TickExpiry == TickTo({SevenDays + 1})

NextExpiry ==
  \/ TickExpiry
  \/ PostQuizGenerated
  \/ PostQuestionIssued
  \/ PostAttemptFromClient
  \/ GetQuestions
  \/ GetAttempts

SpecExpiry == Init /\ [][NextExpiry]_vars

(* One visitor taking a quiz, leaving and reopening it *)
NextTaker ==
  \/ TakerMount
  \/ TakerEffect
  \/ HandleNext
  \/ VerifySettles
  \/ VerifySettlesLate
  \/ HandleBack
  \/ TakerUnmount
  \/ QuizCreationMountClears

SpecTaker == Init /\ [][NextTaker]_vars

(* The creation form with in-place editing: questions are typed, added,
   opened, deleted and saved, with or without an image *)
EditTexts == {<<"q">>, <<"r">>}
EditOptionLists == {<<<<"a">>, <<"a">>>>, <<<<"a">>, <<>>>>}
FormMountNew == FormMountOf({"QuizCreationNew"})
setQuestionTextEdit == setQuestionText(EditTexts)
setOptionsEdit == setOptions(EditOptionLists)

NextFormEdit ==
  \/ FormMountNew
  \/ setQuestionTextEdit
  \/ setOptionsEdit
  \/ setCorrectOption
  \/ handleImageChange
  \/ handleRemoveImage
  \/ handleAddQuestion
  \/ handleAddQuestionResumes
  \/ handleEditQuestion
  \/ handleDeleteQuestion

SpecFormEdit == Init /\ [][NextFormEdit]_vars

(* Both creation forms: any fields are filled and questions are added *)
setQuestionTextAny == setQuestionText(QuestionTexts)
setOptionsAny == setOptions(OptionLists)

NextFormAdd ==
  \/ FormMount
  \/ setQuestionTextAny
  \/ setOptionsAny
  \/ setCorrectOption
  \/ handleImageChange
  \/ handleRemoveImage
  \/ handleAddQuestion
  \/ handleAddQuestionResumes
  \/ handleQuestionChange
  \/ handleOptionChange
  \/ handleCorrectAnswerChange
  \/ addOption
  \/ removeOption
  \/ handleFileChange
  \/ removeImage
  \/ addQuestion
  \/ addQuestionResumes
  \/ editQuestion
  \/ deleteQuestion

SpecFormAdd == Init /\ [][NextFormAdd]_vars

(* Question creation with every accepted content *)
NextQuestions ==
  \/ PostQuizGenerated
  \/ PostQuestionBody

SpecQuestions == Init /\ [][NextQuestions]_vars

(* One creator's form next to the readers of the quiz *)
NextCreate ==
  \/ ClientCreateQuiz
  \/ PostQuizFromForm
  \/ ClientQuizReply
  \/ ClientPostQuestion
  \/ ClientQuestionReply
  \/ ClientAgain
  \/ GetQuizByCode
  \/ GetQuizBySlug
  \/ SlugFallback
  \/ GetQuizByDashboard
  \/ GetQuizById

SpecCreate == Init /\ [][NextCreate]_vars

----------------------------------------------------------------------------
(* Properties *)

ReadOps == {"code", "slug", "dashboard", "id"}

(* The quizzes a read request's key matches; a slug matches ignoring case *)
Matching(r) ==
  CASE r.op = "code" -> {q \in quizzes : q.accessCode = r.req.accessCode}
    [] r.op = "slug" ->
         {q \in quizzes : toLowerCase(q.urlSlug) = toLowerCase(r.req.urlSlug)}
    [] r.op = "dashboard" -> {q \in quizzes : q.dashboardToken = r.req.dashboardToken}
    [] r.op = "id" -> {q \in quizzes : q.id = r.req.quizId}
    [] OTHER -> {}

(* C1: on each of the four quiz read paths a lookup that completes answers
   404 exactly when no quiz matches the key, 410 with expired:true when the
   matching quiz is expired and 200 with the quiz when it is not; an expired
   quiz is never returned with 200. *)
ReadOutcomeTriState ==
  (resp.op \in ReadOps /\ resp.status # 500 /\ resp.req.quizId # NaN) =>
    /\ resp.status \in {200, 404, 410}
    /\ (resp.status = 404) <=> (Matching(resp) = {})
    /\ (resp.status = 410) =>
         /\ resp.expired
         /\ resp.message # "Quiz not found"
         /\ \E q \in Matching(resp) : isQuizExpired(q, now)
    /\ (resp.status = 200) =>
         /\ resp.quiz \in Matching(resp)
         /\ ~isQuizExpired(resp.quiz, now)
    /\ (Matching(resp) # {} /\ \A q \in Matching(resp) : isQuizExpired(q, now))
         => resp.status = 410
    /\ (Matching(resp) # {} /\ \A q \in Matching(resp) : ~isQuizExpired(q, now))
         => resp.status = 200

ExpiredQuizRefusedOnDashboard ==
  /\ resp.op = "dashboard"
  /\ resp.status = 410
  /\ resp.expired
  /\ \E q \in quizzes : q.dashboardToken = resp.req.dashboardToken

(* C2: the expiry decision depends on (createdAt, now) only: a quiz read at
   instant now is refused as expired exactly when now > createdAt + 7 days,
   so it is served up to createdAt + 7 days - 1 s (and at the boundary
   itself) and refused from createdAt + 7 days + 1 s on. *)
ExpiryBoundary ==
  /\ \A q \in quizzes :
       LET createdAt == getTime(q.createdAt)
       IN /\ now <= createdAt + SevenDays - 1 => ~isQuizExpired(q, now)
          /\ now = createdAt + SevenDays => ~isQuizExpired(q, now)
          /\ now >= createdAt + SevenDays + 1 => isQuizExpired(q, now)
  /\ (resp.op = "code" /\ resp.status \in {200, 410}) =>
       \A q \in quizzes :
         q.accessCode = resp.req.accessCode =>
           ((resp.status = 410) <=> (now > getTime(q.createdAt) + SevenDays))

ServedAtExactBoundary ==
  /\ resp.op = "code"
  /\ resp.status = 200
  /\ now = getTime(resp.quiz.createdAt) + SevenDays

(* C9: no two stored quizzes share an accessCode, a urlSlug or a
   dashboardToken. *)
IdentifiersUnique ==
  \A q1 \in quizzes : \A q2 \in quizzes :
    q1.id # q2.id =>
      /\ q1.accessCode # q2.accessCode
      /\ q1.urlSlug # q2.urlSlug
      /\ q1.dashboardToken # q2.dashboardToken

DuplicateSlugRejected ==
  /\ resp.op = "createQuiz"
  /\ resp.status = 500
  /\ \E q \in quizzes : /\ q.urlSlug = resp.req.urlSlug
                        /\ q.accessCode # resp.req.accessCode
                        /\ q.dashboardToken # resp.req.dashboardToken

(* C10: a quiz creation whose identifiers collide with a stored quiz is
   retried with regenerated identifiers and fails only as GenerationExhausted. *)
CollisionEndsAsGenerationExhausted ==
  (resp.op = "createQuiz" /\ resp.status = 500 /\ UniqueViolation(resp.req))
    => resp.error = "GenerationExhausted"

----------------------------------------------------------------------------
(* The quizzes the select of cycle c finds: those created before its cutoff *)
OlderThanCutoff(c) ==
  {q \in quizzes : getTime(q.createdAt) < getTime(sweep[c].cutoff)}

(* C3: the select of a cycle collects every quiz older than the cycle's
   cutoff, and when the cycle returns success:true storage holds no quiz,
   question or attempt of a collected id, and count is the number of
   collected ids. *)
SweepLeavesNothingExpired ==
  [][/\ \A c \in Cycles :
          (sweep[c].pc = "select" /\ sweep'[c] # sweep[c] /\ ~IsFailure(resp')) =>
            IF OlderThanCutoff(c) = {}
              THEN resp'.op = "sweep" /\ resp'.result.count = 0
              ELSE sweep'[c].ids = {q.id : q \in OlderThanCutoff(c)}
     /\ (resp'.op = "sweep" /\ resp'.result.success) =>
          /\ \A q \in quizzes' : q.id \notin resp'.result.quizIds
          /\ \A x \in questions' : x.quizId \notin resp'.result.quizIds
          /\ \A a \in attempts' : a.quizId \notin resp'.result.quizIds
          /\ resp'.result.count = Cardinality(resp'.result.quizIds)]_vars

(* C4: the ids a cycle collects are ids of quizzes older than the cutoff the
   cycle computed when it was called; a quiz created afterwards never gets a
   collected id; and every quiz, question or attempt a step of the cycle
   deletes names a collected id.  (Rows are never updated, so a deleted quiz
   is the row that was collected.) *)
SweepDeletesOnlyExpired ==
  [][\A c \in Cycles :
       /\ \A q \in quizzes' \ quizzes : q.id \notin sweep[c].ids
       /\ (sweep'[c] # sweep[c]) =>
            /\ \A id \in sweep'[c].ids \ sweep[c].ids :
                 /\ sweep[c].pc = "select"
                 /\ \E q \in OlderThanCutoff(c) : q.id = id
            /\ \A q \in quizzes \ quizzes' : q.id \in sweep[c].ids
            /\ \A x \in questions \ questions' : x.quizId \in sweep[c].ids
            /\ \A a \in attempts \ attempts' : a.quizId \in sweep[c].ids]_vars

(* A cycle has finished its deletions while a quiz created at the instant of
   the cycle, days after the quizzes it collected, is stored with a question
   and an attempt. *)
InterleavedQuizSurvives ==
  /\ resp.op = "sweep"
  /\ resp.result.success
  /\ resp.result.count >= 1
  /\ \E q \in quizzes :
       /\ getTime(q.createdAt) = now
       /\ now >= SevenDays
       /\ \E x \in questions : x.quizId = q.id
       /\ \E a \in attempts : a.quizId = q.id

(* C8: every stored attempt has 0 <= score <= totalQuestions. *)
ScoreClamped ==
  \A a \in attempts : 0 <= a.score /\ a.score <= a.totalQuestions

----------------------------------------------------------------------------
(* Answer verification *)

Normalize(str) == toLowerCase(trim(str))

IsStringList(text) ==
  text.t = "arr" /\ \A i \in 1..Len(text.items) : text.items[i].t = "str"

FlipCase(ch) ==
  CASE ch = "a" -> "A"
    [] ch = "A" -> "a"
    [] ch = "b" -> "B"
    [] ch = "B" -> "b"
    [] OTHER -> ch

(* The strings one edit away from str that differ from it only in the case
   of a letter or in a surrounding blank *)
CaseSpaceVariants(str) ==
  {[str EXCEPT ![i] = FlipCase(str[i])] : i \in 1..Len(str)}
    \cup {<<" ">> \o str, str \o <<" ">>}

(* C5: a string answer to a question whose correct answers are a list of
   strings, once the question has been read, gets isCorrect = TRUE exactly
   when its trimmed, lower-cased form equals that of some correct answer, and
   the verdict does not change with the case of a letter or with surrounding
   blanks. *)
SingleAnswerVerdict ==
  (resp.op = "verify" /\ vAnswer.kind = "string" /\ vQuestion # NoQuestion
     /\ IsStringList(vQuestion.correctAnswers) /\ resp.error # "database") =>
    LET items == vQuestion.correctAnswers.items
    IN /\ resp.status = 200
       /\ resp.isCorrect <=>
            \E i \in 1..Len(items) : Normalize(items[i].s) = Normalize(vAnswer.s)
       /\ \A other \in CaseSpaceVariants(vAnswer.s) :
            VerifyResponse(vQuestion, VerifyRequest("string", other, <<>>), FALSE).isCorrect
              = resp.isCorrect

PaddedCapitalAccepted ==
  /\ resp.op = "verify"
  /\ resp.isCorrect
  /\ vAnswer.kind = "string"
  /\ vAnswer.s = <<" ", "A">>
  /\ vQuestion.correctAnswers.items = <<JsonItem("str", <<"a">>)>>

NormalizedSet(list) == {Normalize(list[i]) : i \in 1..Len(list)}

Reverse(list) == [i \in 1..Len(list) |-> list[Len(list) + 1 - i]]

(* C6: an array answer, once the question has been read, gets isCorrect =
   TRUE exactly when the set of its normalized strings equals the set of
   normalized correct answers; the order and the repetition of its elements
   do not matter. *)
MultiAnswerVerdict ==
  (resp.op = "verify" /\ vAnswer.kind = "array" /\ vQuestion # NoQuestion
     /\ IsStringList(vQuestion.correctAnswers) /\ resp.error # "database") =>
    LET items == vQuestion.correctAnswers.items
        correct == {Normalize(items[i].s) : i \in 1..Len(items)}
    IN /\ resp.status = 200
       /\ resp.isCorrect <=> (NormalizedSet(vAnswer.list) = correct)
       /\ VerifyResponse(vQuestion,
                         VerifyRequest("array", <<>>, Reverse(vAnswer.list)), FALSE).isCorrect
            = resp.isCorrect
       /\ vAnswer.list # <<>> =>
            VerifyResponse(vQuestion,
                           VerifyRequest("array", <<>>,
                                         vAnswer.list \o <<Head(vAnswer.list)>>), FALSE).isCorrect
              = resp.isCorrect

RepeatedElementAccepted ==
  /\ resp.op = "verify"
  /\ resp.isCorrect
  /\ vAnswer.kind = "array"
  /\ Len(vAnswer.list) = 2
  /\ Len(vQuestion.correctAnswers.items) = 1
  /\ vAnswer.list[1] # vAnswer.list[2]

(* C7: a question whose stored correctAnswers is not a list of strings never
   gets a verdict: the answer to a verify request is not 200. *)
MalformedNeverVerdict ==
  (resp.op = "verify" /\ vAnswer.kind \in {"string", "array"}
     /\ vQuestion # NoQuestion /\ ~IsStringList(vQuestion.correctAnswers))
    => resp.status # 200

----------------------------------------------------------------------------
(* Access to the dashboard token and to the attempts *)

PublicOps == {"list", "code", "slug", "id"}

(* The table that differs from table only in the dashboardToken of quiz *)
Retokened(table, quiz, token) ==
  (table \ {quiz}) \cup {[quiz EXCEPT !.dashboardToken = token]}

(* The answer of the public lookup op to request req over table; a slug
   lookup answers from its exact lookup or from its fallback *)
PublicRead(table, op, req, fallback) ==
  CASE op = "list" ->
         [Response("list", NoReq, 200, NoQuiz, FALSE, "", "") EXCEPT !.data = ById(table)]
    [] op = "code" ->
         QuizReadResponse(op, req, Found({q \in table : q.accessCode = req.accessCode}),
                          FALSE)
    [] op = "slug" ->
         LET exact == Found({q \in table : q.urlSlug = req.urlSlug})
             anyCase == Found({q \in table :
                                 toLowerCase(q.urlSlug) = toLowerCase(req.urlSlug)})
         IN QuizReadResponse(op, req, IF fallback THEN anyCase ELSE exact, FALSE)
    [] op = "id" ->
         QuizReadResponse(op, req, Found({q \in table : q.id = req.quizId}), FALSE)

OtherTokens == {"t8", "t9"}

(* C11: the successful answers of the quiz list and of the lookups by code,
   by slug and by id do not depend on a quiz's dashboardToken: over a table
   that differs only in the dashboardToken of one quiz the answer is the
   same. *)
DashboardTokenNotDisclosed ==
  (resp.op \in PublicOps /\ resp.status = 200) =>
    \E fallback \in BOOLEAN :
      /\ resp = PublicRead(quizzes, resp.op, resp.req, fallback)
      /\ \A q \in quizzes : \A token \in OtherTokens :
           PublicRead(Retokened(quizzes, q, token), resp.op, resp.req, fallback) = resp

(* C12: a successful answer that carries attempts of a stored quiz was given
   to a request that presented that quiz's dashboard token. *)
AttemptsTokenProtected ==
  (resp.op \in {"attempts", "attempt"} /\ resp.status = 200) =>
    \A i \in 1..Len(resp.data) : \A q \in quizzes :
      q.id = resp.data[i].quizId => resp.req.dashboardToken = q.dashboardToken

(* C16: the answer of the attempts list holds each attempt stored for the
   quiz once, newest first, and count is its length. *)
AttemptsNewestFirst ==
  (resp.op = "attempts" /\ resp.status = 200) =>
    /\ {resp.data[i] : i \in 1..Len(resp.data)}
         = {a \in attempts : a.quizId = resp.req.quizId}
    /\ Len(resp.data) = Cardinality({a \in attempts : a.quizId = resp.req.quizId})
    /\ \A i \in 1..(Len(resp.data) - 1) :
         getTime(resp.data[i].completedAt) >= getTime(resp.data[i + 1].completedAt)
    /\ resp.count = Len(resp.data)

LaterAttemptListedFirst ==
  /\ resp.op = "attempts"
  /\ resp.status = 200
  /\ resp.count = 2
  /\ resp.data[1].id > resp.data[2].id
  /\ getTime(resp.data[1].completedAt) > getTime(resp.data[2].completedAt)

----------------------------------------------------------------------------
(* C13: a reader that obtains the quiz of the running creation on a read
   path finds all the questions submitted with it in storage, and once a
   creation has failed and its posts are answered neither its quiz nor any of
   its questions is in storage. *)
CreationAllOrNothing ==
  /\ (resp.op \in ReadOps /\ resp.status = 200 /\ resp.quiz.id = creation.quizId) =>
       Cardinality({x \in questions : x.quizId = creation.quizId}) = creation.total
  /\ (creation.pc = "failed" /\ creation.pending = 0) =>
       /\ \A q \in quizzes : q.id # creation.quizId
       /\ \A x \in questions : x.quizId # creation.quizId

----------------------------------------------------------------------------
(* C14: as long as every POST /api/users has arrived after the one before
   it was answered, one that is answered 200 or 201 is answered 201 with a
   new id exactly when no user had the username, and 200 with the id of the
   user that had it otherwise, leaving the table as it was; afterwards
   exactly one user has the username, the one of the answer. *)
UserCreationIdempotent ==
  [][(~overlapped' /\ resp'.op = "createUser" /\ resp'.status \in {200, 201}) =>
       LET before == {u \in users : u.username = resp'.req.username}
           after == {u \in users' : u.username = resp'.req.username}
       IN /\ (resp'.status = 201) <=> (before = {})
          /\ (resp'.status = 201) => resp'.rowId \notin {u.id : u \in users}
          /\ (resp'.status = 200) =>
               /\ users' = users
               /\ \E u \in before : u.id = resp'.rowId
          /\ Cardinality(after) = 1
          /\ \A u \in after : u.id = resp'.rowId]_vars

ExistingUserReturned ==
  /\ ~overlapped
  /\ resp.op = "createUser"
  /\ resp.status = 200
  /\ Cardinality(users) >= 2
  /\ \E u \in users : u.id = resp.rowId /\ u.username = resp.req.username

----------------------------------------------------------------------------
Placeholder == <<"e", "m", "y", "d", "a", "n">>

(* C15: a schema-valid POST /api/quizzes is answered 400 EMPTY_CREATOR_NAME
   when creatorName is empty or blank, 400 DEFAULT_CREATOR_NAME_USED when it
   is the placeholder in any letter case, and proceeds to creation (201, or
   500 when the insert fails) otherwise; a 400 stores no quiz. *)
CreatorNameRejections ==
  [][(resp'.op = "createQuiz" /\ resp'.message # "Invalid quiz data") =>
       LET creatorName == resp'.req.creatorName
           empty == trim(creatorName) = <<>>
           placeholder == toLowerCase(creatorName) = Placeholder
       IN /\ empty => (resp'.status = 400 /\ resp'.error = "EMPTY_CREATOR_NAME")
          /\ placeholder =>
               (resp'.status = 400 /\ resp'.error = "DEFAULT_CREATOR_NAME_USED")
          /\ (~empty /\ ~placeholder) =>
               /\ resp'.status \in {201, 500}
               /\ resp'.error = ""
               /\ resp'.status = 201 =>
                    (resp'.quiz \in quizzes' /\ resp'.quiz \notin quizzes)
          /\ resp'.status = 400 => quizzes' = quizzes]_vars

MixedCasePlaceholderRejected ==
  /\ resp.op = "createQuiz"
  /\ resp.status = 400
  /\ resp.error = "DEFAULT_CREATOR_NAME_USED"
  /\ resp.req.creatorName = <<"E", "m", "y", "D", "a", "n">>
  /\ quizzes # {}

----------------------------------------------------------------------------
(* C17: the image cleanup step, failed or not, hands the collected ids on to
   the deletions without returning, and from there every cycle deletes alike:
   each delete step removes the rows of the collected quizzes unless that
   statement itself fails, and the last one returns success:true with the
   count and the ids of the collected quizzes. *)
ImageFailureDoesNotBlock ==
  [][\A c \in Cycles :
       (sweep'[c] # sweep[c] /\ sweep[c].pc \notin {"idle", "select"}) =>
         CASE sweep[c].pc = "images" ->
                /\ sweep'[c] = [sweep[c] EXCEPT !.pc = "attempts"]
                /\ resp'.op = "images"
                /\ UNCHANGED dbVars
           [] sweep[c].pc = "attempts" ->
                \/ IsFailure(resp') /\ attempts' = attempts
                \/ /\ attempts' = {a \in attempts : a.quizId \notin sweep[c].ids}
                   /\ sweep'[c] = [sweep[c] EXCEPT !.pc = "questions"]
           [] sweep[c].pc = "questions" ->
                \/ IsFailure(resp') /\ questions' = questions
                \/ /\ questions' = {q \in questions : q.quizId \notin sweep[c].ids}
                   /\ sweep'[c] = [sweep[c] EXCEPT !.pc = "quizzes"]
           [] sweep[c].pc = "quizzes" ->
                \/ IsFailure(resp') /\ quizzes' = quizzes
                \/ /\ quizzes' = {q \in quizzes : q.id \notin sweep[c].ids}
                   /\ resp'.op = "sweep"
                   /\ resp'.result.success
                   /\ resp'.result.count = Cardinality(sweep[c].ids)
                   /\ resp'.result.quizIds = sweep[c].ids
           [] OTHER -> FALSE]_vars

DeletionsFollowImageError ==
  /\ resp.op = "images"
  /\ resp.error = "Error cleaning up images"
  /\ \E c \in Cycles :
       /\ sweep[c].pc = "attempts"
       /\ sweep[c].ids # {}
       /\ \E a \in attempts : a.quizId \in sweep[c].ids

----------------------------------------------------------------------------
(* C18: a cycle that has collected expired quizzes and called the image
   cleanup eventually goes on to the deletions. *)
HangingImageCleanupBounded ==
  \A c \in Cycles : (sweep[c].pc = "images") ~> (sweep[c].pc = "attempts")

(* A cycle starts only when the pending timer is due, and the interval is
   due again 24 hours after it fired *)
TimersOnTime ==
  /\ (sched'.cycles # sched.cycles) =>
       /\ sched'.cycles = sched.cycles + 1
       /\ now = sched.due
       /\ sched.pc \in {"waiting", "armed"}
  /\ (sched.pc = "armed" /\ sched'.cycles # sched.cycles) => sched'.due = now + Day

(* When a scheduled cycle returns, the interval is pending: created 24 hours
   ahead by the initial callback, left as it is by an interval callback *)
IntervalPendingAfterCycle ==
  (sched.pc \in Running /\ resp'.op = "sweep") =>
    /\ sched'.pc = "armed"
    /\ sched'.due = IF sched.pc = "initialCycle" THEN now + Day ELSE sched.due
    /\ sched'.due >= now

(* C19: the initial timeout fires when the initial delay has elapsed and the
   interval every 24 hours from then on; whatever a cycle returns, success or
   failure, the callback ends with the interval pending, and once the
   interval is pending every further cycle starts, whichever cycles failed. *)
SchedulerKeepsRunning ==
  /\ [][TimersOnTime /\ IntervalPendingAfterCycle]_vars
  /\ (sched.pc = "waiting") ~> (sched.pc \in {"initialCycle", "cleared"})
  /\ (sched.pc = "armed") ~> (sched.cycles = MaxCycles)

CycleStartedAfterFailedFirst ==
  /\ sched.pc = "armed"
  /\ sweep[2].pc = "select"
  /\ sched.cycles = 2
  /\ sched.failed = 1
  /\ quizzes # {}

(* C20: once the value scheduleCleanupTask returned has been cleared, no
   further cycle starts. *)
ClearedHandleStopsCycles ==
  [][sched.cancelled => sched'.cycles = sched.cycles]_vars

----------------------------------------------------------------------------
(* C21: every stored question has its correct answers among its options:
   question creation refuses, and does not store, a question one of whose
   correct answers is not one of its options. *)
CorrectAnswersAmongOptions ==
  \A q \in questions : Elements(q.correctAnswers) \subseteq Elements(q.options)

(* C22: in every reachable state each stored question and each stored
   attempt names a quiz that is in storage, whatever the interleaving of
   question creation, attempt submission and sweep cycles. *)
ReferentialIntegrity ==
  \A x \in questions \cup attempts : \E q \in quizzes : q.id = x.quizId

(* A quiz of that id is in storage and past its retention period *)
ExpiredId(quizId) == \E q \in quizzes : q.id = quizId /\ isQuizExpired(q, now)

(* C23: while a quiz is expired, listing its questions, listing its attempts
   and submitting an attempt for it never succeed with a 2xx response. *)
ExpiredQuizInaccessible ==
  [][/\ (resp'.op \in {"questions", "attempts"} /\ resp'.status \in 200..299)
          => ~ExpiredId(resp'.req.quizId)
     /\ (resp'.op = "createAttempt" /\ resp'.status \in 200..299)
          => \A a \in attempts' \ attempts : ~ExpiredId(a.quizId)]_vars

(* The quizzes whose slug is the requested one, exactly and ignoring case *)
ExactSlug(r) == {q \in quizzes : q.urlSlug = r.req.urlSlug}
AnyCaseSlug(r) == {q \in quizzes : toLowerCase(q.urlSlug) = toLowerCase(r.req.urlSlug)}

(* C24: the slug lookup selects the quiz that has exactly the requested slug
   when there is one; otherwise it selects a quiz whose slug equals the
   requested one ignoring letter case, and answers 404 only when no slug
   matches ignoring case; the expiry check (410) applies to the selected
   quiz in the same way whichever way it was found. *)
SlugExactThenAnyCase ==
  [][(resp'.op = "slug" /\ resp'.status # 500) =>
       LET exact == ExactSlug(resp')
           selected == IF exact # {} THEN exact ELSE AnyCaseSlug(resp')
       IN /\ resp'.status \in {200, 404, 410}
          /\ (resp'.status = 404) <=> (AnyCaseSlug(resp') = {})
          /\ (resp'.status = 200) =>
               /\ resp'.quiz \in selected
               /\ ~isQuizExpired(resp'.quiz, now)
          /\ (resp'.status = 410) =>
               /\ resp'.expired
               /\ \E x \in selected : isQuizExpired(x, now)
          /\ (selected # {} /\ \A x \in selected : isQuizExpired(x, now))
               => resp'.status = 410
          /\ (selected # {} /\ \A x \in selected : ~isQuizExpired(x, now))
               => resp'.status = 200]_vars

(* C25: once the last question has been answered and onComplete called, and
   the state updates of that submission have settled, localStorage holds no
   saved answers and no saved index of the quiz. *)
ProgressStaysCleared ==
  (taker.completed.called /\ taker.pc \in {"ready", "unmounted"})
    => ~taker.localStorage.present

(* C28: the score passed to onComplete is the number of recorded answers
   whose verify response had isCorrect = true. *)
ScoreCountsVerifiedCorrect ==
  taker.completed.called =>
    taker.completed.score =
      Cardinality({i \in DOMAIN taker.completed.answers :
                     taker.completed.answers[i].isCorrect.isCorrect})

(* C26: under any interleaving of POST /users requests with the same
   username at most one user has that username, and every request that the
   storage serves is answered 200 or 201 with that user's id. *)
ConcurrentUserCreationIdempotent ==
  /\ \A u1 \in users, u2 \in users : u1.username = u2.username => u1 = u2
  /\ (resp.op = "createUser" /\ resp.status \in {200, 201}) =>
       \A u \in users : u.username = resp.req.username => u.id = resp.rowId
  /\ (resp.op = "createUser" /\ resp.error = "UNIQUE constraint failed") =>
       resp.status \in {200, 201}

(* A cycle before the last one has failed; the last cycle has failed *)
FailedEarly == IsFailure(resp) /\ sched.cycles < MaxCycles
FailedLast == IsFailure(resp) /\ sched.cycles = MaxCycles

(* A failing step of a cycle leaves every quiz row, and quiz rows are
   deleted by the last step of a cycle only, the one that returns
   success:true with their ids *)
FailedCycleKeepsQuizRows ==
  /\ IsFailure(resp') => quizzes' = quizzes
  /\ (quizzes \ quizzes' # {}) =>
       /\ resp'.op = "sweep"
       /\ resp'.result.success
       /\ {q.id : q \in quizzes \ quizzes'} \subseteq resp'.result.quizIds

(* C27: a cycle that fails at a database step has deleted no quiz row, quiz
   rows being deleted by the last step only; and when a cycle has failed, later no
   expired quiz is left in storage, and every question and attempt of an
   expired quiz stored at the failure is deleted, unless the failures go on
   to the last cycle. *)
FailedSweepRetried ==
  /\ [][FailedCycleKeepsQuizRows]_vars
  /\ FailedEarly ~> ((\A q \in quizzes : ~isQuizExpired(q, now)) \/ FailedLast)
  /\ \A k \in 1..MaxQuestions :
       (FailedEarly /\ \E x \in questions : x.id = k /\ ExpiredId(x.quizId))
         ~> ((~\E x \in questions : x.id = k) \/ FailedLast)
  /\ \A k \in 1..MaxAttempts :
       (FailedEarly /\ \E x \in attempts : x.id = k /\ ExpiredId(x.quizId))
         ~> ((~\E x \in attempts : x.id = k) \/ FailedLast)

(* The step of handleAddQuestion that saves the question being edited *)
SavesEdited ==
  /\ form.component = "QuizCreationNew"
  /\ form.editingIndex # Null
  /\ form'.editingIndex = Null

(* C29: in QuizCreationNew, saving an edited question replaces exactly the
   question that was opened for editing: the list keeps its length, the
   position of the opened question receives the saved question, and every
   other question is unchanged, whatever was added, opened or deleted
   between opening and saving. *)
SaveReplacesOpenedQuestion ==
  [][SavesEdited =>
       /\ Len(form'.questions) = Len(form.questions)
       /\ \E i \in DOMAIN form.questions :
            /\ form.questions[i] = form.opened
            /\ \E render \in BagToSet(form.uploads) \cup {Render} :
                 form'.questions[i] = newQuestion(render)
            /\ \A j \in DOMAIN form.questions \ {i} :
                 form'.questions[j] = form.questions[j]]_vars

NonEmptyOptions(question) == SelectSeq(question.options, IsFilled)
CorrectOptions(question) ==
  SelectSeq(question.options, LAMBDA opt : opt.isCorrect)

(* C30: every question in the list of a creation form has at least two
   non-empty options and at least one option marked correct, exactly one in
   QuizCreationNew. *)
AddedQuestionsWellFormed ==
  \A i \in {j \in DOMAIN form.questions : form.questions[j] \notin {Hole, Undefined}} :
    /\ Len(NonEmptyOptions(form.questions[i])) >= 2
    /\ Len(CorrectOptions(form.questions[i])) >= 1
    /\ form.component = "QuizCreationNew" =>
         Len(CorrectOptions(form.questions[i])) = 1

====
